---- MODULE Spec2Model ----
(***************************************************************************)
(* Docking orchestration engine: the batch process task                    *)
(* (processes/tasks.py, run_plasmodocking_process) and the receptor        *)
(* preparation task (macromolecules/tasks.py, prepare_macromolecule),      *)
(* with its write-back (_update_database) under concurrent writers.        *)
(*                                                                         *)
(* Numbers with a fractional part (RMSD, energy) are kept in tenths.       *)
(***************************************************************************)
EXTENDS Integers, Sequences, FiniteSets, TLC

(***************************************************************************)
(* Bounds of the model.                                                    *)
(***************************************************************************)
MaxR == 2
MaxL == 3
MaxWriters == 2
MaxRuns == 2
MaxJobs == 3
MaxLines == 2
MaxDeliveries == 2
MaxRedeliveredPairs == 1

(***************************************************************************)
(* ProcessStatusEnum, processes/models.py.                                 *)
(***************************************************************************)
EM_FILA == "EM_FILA"
PROCESSANDO == "PROCESSANDO"
CONCLUIDO == "CONCLUIDO"
ERROR == "ERROR"

ProcessStatusEnum == {EM_FILA, PROCESSANDO, CONCLUIDO, ERROR}

\* A null column / Python None where the other values are strings.
None == "None"

\* A null JSON column / Python None where the other values are records.
Null == [null |-> TRUE]
IsNull(x) == "null" \in DOMAIN x

\* The two executables the batch task validates, in the order it checks them.
BatchTools == <<"autodock_gpu", "obabel">>

\* What one receptor record of the job's type is on disk: its pathFilefld
\* resolves to a *.maps.fld ("ok"), resolves but the docking engine exits
\* non-zero on it ("bad"), or does not resolve ("nofld": null path, directory
\* without *.maps.fld, missing file).
RecKinds == {"ok", "bad", "nofld"}

\* What one split ligand file makes the docking engine do: write a report
\* with valid runs ("ok"), run into the timeout ("timeout"), or write a
\* report without any valid run ("norun").
LigKinds == {"ok", "timeout", "norun"}

RECURSIVE SeqsUpTo(_, _)
SeqsUpTo(S, n) ==
  IF n = 0 THEN {<<>>}
  ELSE LET shorter == SeqsUpTo(S, n - 1)
       IN shorter \cup {Append(s, x) : s \in {t \in shorter : Len(t) = n - 1}, x \in S}

(***************************************************************************)
(* The structured report of the docking engine: a sequence of run          *)
(* elements, each with the attributes reference_rmsd, binding_energy and   *)
(* run; an attribute is [ok, present, v]: present is whether the element   *)
(* has it, ok whether float()/int() accepts its text.                      *)
(***************************************************************************)
Attr(v) == [ok |-> TRUE, present |-> TRUE, v |-> v]
BadAttr == [ok |-> FALSE, present |-> TRUE, v |-> 0]
MissingAttr == [ok |-> FALSE, present |-> FALSE, v |-> 0]
Run(rmsd, energy, id) == [reference_rmsd |-> rmsd, binding_energy |-> energy, run |-> id]

\* runs [(2.1,-5.0), (1.3,-6.2), (4.0,-9.9)]
GoodReport == << Run(Attr(21), Attr(-50), Attr(1)),
                 Run(Attr(13), Attr(-62), Attr(2)),
                 Run(Attr(40), Attr(-99), Attr(3)) >>
NoRunReport == << Run(BadAttr, Attr(-50), Attr(1)) >>

ReportOf(ligKind) == IF ligKind = "ok" THEN GoodReport ELSE NoRunReport

RECURSIVE BestRunFrom(_, _, _)
BestRunFrom(runs, i, best) ==
  IF i > Len(runs) THEN best
  ELSE LET el == runs[i]
           wellFormed == el.reference_rmsd.ok /\ el.binding_energy.ok /\ el.run.ok
       IN IF ~wellFormed THEN BestRunFrom(runs, i + 1, best)
          ELSE IF best = <<>> \/ el.reference_rmsd.v < best[1].best_rmsd
               THEN BestRunFrom(runs, i + 1,
                      << [best_energy |-> el.binding_energy.v,
                          best_rmsd |-> el.reference_rmsd.v,
                          best_run |-> el.run.v] >>)
               ELSE BestRunFrom(runs, i + 1, best)

extract_best_from_xml_MinEnergy(runs) ==
  LET ok == {i \in 1..Len(runs) :
               runs[i].reference_rmsd.ok /\ runs[i].binding_energy.ok /\ runs[i].run.ok}
  IN IF ok = {} THEN <<>>
     ELSE LET i == CHOOSE k \in ok :
                     \A j \in ok : runs[k].binding_energy.v <= runs[j].binding_energy.v
          IN << [best_energy |-> runs[i].binding_energy.v,
                 best_rmsd |-> runs[i].reference_rmsd.v,
                 best_run |-> runs[i].run.v] >>
\* extract_best_from_xml: <<>> stands for the ValueError "Nenhum run valido".
extract_best_from_xml(runs) == BestRunFrom(runs, 1, <<>>)

(***************************************************************************)
(* run_autodock_gpu for one pair of a resolved receptor: the report the    *)
(* engine wrote, or the exception run_cmd raised.                          *)
(***************************************************************************)
run_autodock_gpu(recKind, ligKind) ==
  IF recKind = "bad" THEN [ok |-> FALSE, error |-> "CalledProcessError"]
  ELSE IF ligKind = "timeout" THEN [ok |-> FALSE, error |-> "TimeoutExpired"]
  ELSE [ok |-> TRUE, xml |-> ReportOf(ligKind)]

\* The try block of the pair loop: docking, then extraction.
PairOutcome(recKind, ligKind) ==
  LET dock == run_autodock_gpu(recKind, ligKind)
  IN IF ~dock.ok THEN [status |-> "error", error |-> dock.error]
     ELSE LET best == extract_best_from_xml(dock.xml)
          IN IF best = <<>> THEN [status |-> "error", error |-> "Nenhum run valido"]
             ELSE [status |-> "success", best |-> best[1]]

(***************************************************************************)
(* Rows of the ledger (csv_rows) and entries of a receptor block.          *)
(***************************************************************************)
SuccessRow(rec, lig, best) ==
  [PROCESS_ID |-> "proc", TYPE |-> "type", RECEPTOR_REC |-> rec, LIGAND_FILE |-> lig,
   BEST_BINDING_ENERGY |-> best.best_energy,
   BEST_REFERENCE_RMSD |-> best.best_rmsd,
   BEST_RUN |-> best.best_run]

ErrorRow(rec, lig, msg) ==
  [PROCESS_ID |-> "proc", TYPE |-> "type", RECEPTOR_REC |-> rec, LIGAND_FILE |-> lig,
   ERROR |-> msg]

ReceptorErrorMsg == "Receptor error"

\* Mutant: a skipped receptor leaves a single row.
ReceptorErrorRows_Single(rec, nLig) == << ErrorRow(rec, 1, ReceptorErrorMsg) >>

\* The rows appended for a receptor whose field descriptor does not resolve.
ReceptorErrorRows(rec, nLig) == [l \in 1..nLig |-> ErrorRow(rec, l, ReceptorErrorMsg)]

IsSuccessRow(row) == "BEST_RUN" \in DOMAIN row
IsErrorRow(row) == "ERROR" \in DOMAIN row
IsReceptorErrorRow(row) == IsErrorRow(row) /\ row.ERROR = ReceptorErrorMsg
IsPairErrorRow(row) == IsErrorRow(row) /\ row.ERROR # ReceptorErrorMsg

PairRow(rec, lig, out) ==
  IF out.status = "success" THEN SuccessRow(rec, lig, out.best)
  ELSE ErrorRow(rec, lig, out.error)

\* Mutant: a failed pair leaves no row.
AppendPairRow_SuccessOnly(rows, rec, lig, out) ==
  IF out.status = "success" THEN Append(rows, PairRow(rec, lig, out)) ELSE rows

\* The row a pair leaves in the ledger, on either branch of the try.
AppendPairRow(rows, rec, lig, out) == Append(rows, PairRow(rec, lig, out))

LigResult(lig, out) ==
  IF out.status = "success"
  THEN [ligand |-> lig, best_binding_energy |-> out.best.best_energy,
        best_reference_rmsd |-> out.best.best_rmsd, best_run |-> out.best.best_run,
        status |-> "success"]
  ELSE [ligand |-> lig, error |-> out.error, status |-> "error"]

NewRecBlock(rec) == [receptor_rec |-> rec, ligantes |-> <<>>, status |-> "processing"]

SkippedRecBlock(rec, nLig) ==
  [receptor_rec |-> rec, ligantes |-> <<>>, status |-> "error", error |-> "fld_error",
   ligantes_ok |-> 0, ligantes_failed |-> nLig]

ClosedRecBlock(block, ok, failed) ==
  [receptor_rec |-> block.receptor_rec, ligantes |-> block.ligantes,
   status |-> IF ok > 0 THEN "completed" ELSE "failed",
   ligantes_ok |-> ok, ligantes_failed |-> failed]

(***************************************************************************)
(* Final status and result payload.                                        *)
(***************************************************************************)
\* Mutant: partial success is reported as a failure.
FinalStatus_AllOrNothing(successful, total) ==
  IF successful = total THEN CONCLUIDO ELSE ERROR

FinalStatus(successful, total) ==
  IF successful = 0 THEN ERROR ELSE CONCLUIDO

StatusMsg(successful, total) ==
  IF successful = 0 THEN "FALHA TOTAL"
  ELSE IF successful = total THEN "SUCESSO COMPLETO"
  ELSE "SUCESSO PARCIAL"

Statistics(total, successful, failed, skipped, nRec, nLig) ==
  [total_combinations |-> total, successful_combinations |-> successful,
   failed_combinations |-> failed, skipped_receptors |-> skipped,
   total_receptors |-> nRec, total_ligands |-> nLig]

\* Mutant: the payload always says ok.
ResultsPayload_AlwaysOk(total, cnt, nRec, nLig, blocks) ==
  [ok |-> TRUE,
   process_id |-> "proc",
   status_message |-> StatusMsg(cnt.successful_combinations, total),
   statistics |-> Statistics(total, cnt.successful_combinations, cnt.failed_combinations,
                             cnt.skipped_receptors, nRec, nLig),
   macromolecules |-> blocks]

ResultsPayload(total, cnt, nRec, nLig, blocks) ==
  [ok |-> cnt.successful_combinations > 0,
   process_id |-> "proc",
   status_message |-> StatusMsg(cnt.successful_combinations, total),
   statistics |-> Statistics(total, cnt.successful_combinations, cnt.failed_combinations,
                             cnt.skipped_receptors, nRec, nLig),
   macromolecules |-> blocks]

\* resultado_final written by _fail_process.
ErrorResult(msg) == [ok |-> FALSE, error |-> msg, process_id |-> "proc"]

(***************************************************************************)
(* Artifacts.                                                              *)
(***************************************************************************)
JsonPath == "resultado.json"
CsvPath == "resultado.csv"
ZipPath == "base.zip"

EmptyCsvHeaders ==
  {"PROCESS_ID", "TYPE", "RECEPTOR_REC", "LIGAND_FILE",
   "BEST_BINDING_ENERGY", "BEST_REFERENCE_RMSD", "BEST_RUN", "ERROR"}

\* The lines csv.DictWriter writes: writeheader() writes the column names,
\* writerow(r) one cell per column, empty where r has no such key.
Cell(row, col) == IF col \in DOMAIN row THEN [blank |-> FALSE, v |-> row[col]] ELSE [blank |-> TRUE]
HeaderLine(headers) == [kind |-> "header", cols |-> headers]
DataLine(headers, row) == [kind |-> "row", cols |-> headers, cells |-> [c \in headers |-> Cell(row, c)]]

write_rows_csv_NoErrorRows(rows) ==
  IF rows = <<>> THEN << HeaderLine(EmptyCsvHeaders) >>
  ELSE LET headers == UNION {DOMAIN rows[i] : i \in 1..Len(rows)}
           kept == SelectSeq(rows, LAMBDA r : "ERROR" \notin DOMAIN r)
       IN << HeaderLine(headers) >> \o [i \in 1..Len(kept) |-> DataLine(headers, kept[i])]
\* write_rows_csv: the lines of the file; the column names are a set here,
\* the code writes them sorted.
write_rows_csv(rows) ==
  IF rows = <<>> THEN << HeaderLine(EmptyCsvHeaders) >>
  ELSE LET headers == UNION {DOMAIN rows[i] : i \in 1..Len(rows)}
       IN << HeaderLine(headers) >> \o [i \in 1..Len(rows) |-> DataLine(headers, rows[i])]

NoFiles == [json |-> Null, csv |-> Null, zip |-> FALSE]

(***************************************************************************)
(* State of the batch process task.                                        *)
(***************************************************************************)
VARIABLES
  jobExists,          \* a Process row with the delivered id exists
  toolsPresent,       \* which of BatchTools exist on the worker
  sdfState,           \* proc.pathFileSDF: "null", "missing" (no such file), "present"
  typeHasRedocking,   \* whether m.type has the attribute redocking: the model
                      \* class MacromoleculeType declares no such field, its
                      \* serializer reads one, so both builds are considered
  ligands,            \* sorted *.pdbqt files of ligantes_pdbqt/, by their kind
  macs,               \* receptors of the job's type ordered by rec, by their kind
  proc,               \* the stored Process row: status, resultado_final, pathFileZIP
  pc,                 \* position of the task
  ri, li,             \* index of the current receptor and ligand
  rec_block, ok_ligs, failed_ligs,
  macs_results, csv_rows, counters,
  final,              \* final_status, results_payload, zip_path once decided
  files,              \* resultado.json, resultado.csv and the zip on disk
  toolLog,            \* external processes spawned by the run, in order
  statusWrites,       \* status values the run saved, in order
  ret                 \* value the task returned

batchVars == << jobExists, toolsPresent, sdfState, typeHasRedocking, ligands, macs,
                proc, pc, ri, li, rec_block, ok_ligs, failed_ligs, macs_results,
                csv_rows, counters, final, files, toolLog, statusWrites, ret >>

worldVars == << jobExists, toolsPresent, sdfState, typeHasRedocking >>
loopVars == << ri, li, rec_block, ok_ligs, failed_ligs, macs_results, csv_rows, counters >>

(***************************************************************************)
(* State of the receptor preparation task.                                 *)
(***************************************************************************)
VARIABLES
  prepToolsOk,        \* every path of ToolPaths exists
  receptorExists,     \* workdir/receptor_filename exists
  gridsize,           \* argument gridsize, a text
  gridcenter,         \* argument gridcenter, a text
  ligandFile,         \* "none": no ligand_filename; "missing": no such file;
                      \* "coords" / "nocoords": a file with / without valid atoms
  macromolecule_id,   \* "none", "found" (a row has the id) or "notfound"
  prepPc,             \* position of the task
  retries,            \* self.request.retries
  prepErr,            \* class of the exception the attempt raised, or None
  part,               \* partition index of the running loop
  grid_params,
  fld,                \* the *.maps.fld of the workdir: "none", "raw" or "final"
  ligand_pdbqt,       \* prepare_ligand returned a path
  docking_result,
  mac,                \* the linked Macromolecule row
  prepCalls,          \* external processes spawned by the attempt, in order
  prepResult          \* value the task returned

prepInputs == << prepToolsOk, receptorExists, gridsize, gridcenter, ligandFile,
                 macromolecule_id >>
prepVars == << prepInputs, prepPc, retries, prepErr, part, grid_params, fld,
               ligand_pdbqt, docking_result, mac, prepCalls, prepResult >>

(***************************************************************************)
(* State of concurrent write-backs (_update_database) to one linked row,   *)
(* which is the variable mac, and of a reader of that row.                 *)
(***************************************************************************)
VARIABLES
  rowExists,          \* a Macromolecule row has the id the writers were given
  wres,               \* per writer: the docking result it writes back
  wpc,                \* per writer: position in _update_database
  rowLock,            \* the writer whose transaction holds the row lock, or 0
  wobj,               \* per writer: obj, the row version of its transaction
  wret,               \* per writer: value returned, or None
  observed            \* the row as the reader last saw it

dbVars == << rowExists, wres, wpc, rowLock, wobj, wret, observed >>
prepRest == << prepInputs, prepPc, retries, prepErr, part, grid_params, fld,
               ligand_pdbqt, docking_result, prepCalls, prepResult >>

(***************************************************************************)
(* State of one application of the two result extractors to a report.      *)
(***************************************************************************)
VARIABLES
  report,             \* the report file of the docking engine
  xBatch,             \* outcome of extract_best_from_xml, or Null before the call
  xPrep               \* outcome of _parse_best_from_xml, or Null before the call

extractVars == << report, xBatch, xPrep >>

(***************************************************************************)
(* The working directory of a receptor preparation over its attempts: the  *)
(* contents of the files the pipeline leaves in it.                        *)
(***************************************************************************)
VARIABLES
  watched,            \* the partition whose grid_<i>.gpf is followed line by line
  rawLen,             \* number of lines of the .maps.fld autogrid4 writes
  wdir,               \* the files: receptor pdbqt, gpf files, field descriptor
  aPc,                \* position of the attempt in the pipeline
  aPart,              \* partition of the running gpf or autogrid loop
  aAttempt,           \* self.request.retries
  aWrote,             \* every tool of this attempt so far wrote its output file
  aRuns               \* attempts that went through postprocess_fld

artVars == << watched, rawLen, wdir, aPc, aPart, aAttempt, aWrote, aRuns >>

(***************************************************************************)
(* The jobs the two create serializers enqueue, with their directories.    *)
(***************************************************************************)
VARIABLES
  jobs,               \* the jobs created so far, in order of creation
  procIds             \* ids given to Process rows so far

dirVars == << jobs, procIds >>

(***************************************************************************)
(* Two runs of the batch task over the same rows and directories.          *)
(***************************************************************************)
VARIABLES
  tMacs,              \* the Macromolecule rows of the type: id -> [rec, flds]
  tLigands,           \* number of *.pdbqt files the split left
  tQuery,             \* per run: the list get_macromolecules_for_process returned
  tLedger,            \* per run: the entries appended so far
  tPc,                \* per run: position
  tRi                 \* per run: index of the receptor in work

twoVars == << tMacs, tLigands, tQuery, tLedger, tPc, tRi >>

(***************************************************************************)
(* One call of a tool invoker, and one call of the centroid computation.   *)
(***************************************************************************)
VARIABLES
  invoker,            \* which invoker is called
  cmdTimeout,         \* its timeout argument, in seconds
  procEnd,            \* how the external process behaves once started
  spawned,            \* external processes started by the call
  iPc,                \* position of the call
  iResult             \* what the call returned or raised, Null before

invVars == << invoker, cmdTimeout, procEnd, spawned, iPc, iResult >>

VARIABLES
  structure,          \* the structure file: its lines, or absent
  centroid            \* outcome of calculate_ligand_center, Null before the call

cenVars == << structure, centroid >>

(***************************************************************************)
(* One call of GridParams.from_strings on two texts written from numbers.  *)
(***************************************************************************)
VARIABLES
  gValues,            \* the numbers the texts are written from: [size, center]
  gSep,               \* the separator written between two numbers
  gTexts,             \* the two texts, as characters; Null before they are written
  gParams             \* outcome of from_strings on the texts, Null before the call

gridVars == << gValues, gSep, gTexts, gParams >>
fnVars == << extractVars, artVars, dirVars, twoVars, invVars, cenVars, gridVars >>

vars == << batchVars, prepVars, dbVars, fnVars >>

NoCounters == [successful_combinations |-> 0, failed_combinations |-> 0,
               skipped_receptors |-> 0]

NoFinal == [decided |-> FALSE]

\* Mutant: a skipped receptor counts as one failed combination.
SkipCounters_One(cnt, nLig) ==
  [cnt EXCEPT !.skipped_receptors = @ + 1, !.failed_combinations = @ + 1]

\* The counters after a receptor was skipped.
SkipCounters(cnt, nLig) ==
  [cnt EXCEPT !.skipped_receptors = @ + 1, !.failed_combinations = @ + nLig]

NoBlock == [status |-> "none"]

InitBatch ==
  /\ jobExists \in BOOLEAN
  /\ toolsPresent \in SUBSET {BatchTools[1], BatchTools[2]}
  /\ sdfState \in {"null", "missing", "present"}
  /\ typeHasRedocking \in BOOLEAN
  /\ ligands = <<>>
  /\ macs = <<>>
  /\ proc = [status |-> EM_FILA, resultado_final |-> Null, pathFileZIP |-> None]
  /\ pc = "queued"
  /\ ri = 1
  /\ li = 1
  /\ rec_block = NoBlock
  /\ ok_ligs = 0
  /\ failed_ligs = 0
  /\ macs_results = <<>>
  /\ csv_rows = <<>>
  /\ counters = NoCounters
  /\ final = NoFinal
  /\ files = NoFiles
  /\ toolLog = <<>>
  /\ statusWrites = <<>>
  /\ ret = Null

\* _fail_process followed by the return of the error dict.
FailProcess(msg) ==
  /\ proc' = [proc EXCEPT !.status = ERROR, !.resultado_final = ErrorResult(msg)]
  /\ statusWrites' = Append(statusWrites, ERROR)
  /\ ret' = [ok |-> FALSE, error |-> msg]
  /\ pc' = "done"

\* Mutant: the status is saved although no row was found.
StartRun_SavesWithoutRow ==
  /\ pc = "queued"
  /\ proc' = [proc EXCEPT !.status = PROCESSANDO]
  /\ statusWrites' = Append(statusWrites, PROCESSANDO)
  /\ IF ~jobExists
     THEN /\ ret' = [ok |-> FALSE, error |-> "process_not_found"]
          /\ pc' = "done"
     ELSE /\ pc' = "tools"
          /\ ret' = ret
  /\ UNCHANGED << fnVars, dbVars, prepVars, worldVars, ligands, macs, loopVars, final, files, toolLog >>

\* Loads the Process and saves status PROCESSANDO.
StartRun ==
  /\ pc = "queued"
  /\ IF ~jobExists
     THEN /\ ret' = [ok |-> FALSE, error |-> "process_not_found"]
          /\ pc' = "done"
          /\ UNCHANGED << proc, statusWrites >>
     ELSE /\ proc' = [proc EXCEPT !.status = PROCESSANDO]
          /\ statusWrites' = Append(statusWrites, PROCESSANDO)
          /\ pc' = "tools"
          /\ ret' = ret
  /\ UNCHANGED << fnVars, dbVars, prepVars, worldVars, ligands, macs, loopVars, final, files, toolLog >>

\* The first of BatchTools that does not exist, or None.
FirstMissingTool(present) ==
  IF BatchTools[1] \notin present THEN BatchTools[1]
  ELSE IF BatchTools[2] \notin present THEN BatchTools[2]
  ELSE None

ValidateTools ==
  /\ pc = "tools"
  /\ LET missing == FirstMissingTool(toolsPresent)
     IN IF missing # None
        THEN FailProcess(missing)
        ELSE /\ pc' = "sdf"
             /\ UNCHANGED << proc, statusWrites, ret >>
  /\ UNCHANGED << fnVars, dbVars, prepVars, worldVars, ligands, macs, loopVars, final, files, toolLog >>

\* Path(proc.pathFileSDF) raises TypeError on a null path, outside any try.
ValidateSdf ==
  /\ pc = "sdf"
  /\ CASE sdfState = "null" ->
            /\ pc' = "crashed"
            /\ UNCHANGED << proc, statusWrites, ret >>
       [] sdfState = "missing" -> FailProcess("SDF nao encontrado")
       [] OTHER ->
            /\ pc' = "split"
            /\ UNCHANGED << proc, statusWrites, ret >>
  /\ UNCHANGED << fnVars, dbVars, prepVars, worldVars, ligands, macs, loopVars, final, files, toolLog >>

ObabelCall == [tool |-> "obabel", rec |-> 0, lig |-> 0]
DockCall(rec, lig) == [tool |-> "autodock_gpu", rec |-> rec, lig |-> lig]

\* prepare_process_dirs, then split_sdf_to_pdbqt: one obabel process; its
\* exception fails the job, otherwise the sorted glob is the ligand list.
SplitLigands ==
  /\ pc = "split"
  /\ toolLog' = Append(toolLog, ObabelCall)
  /\ \/ /\ FailProcess("Falha no OpenBabel")
        /\ UNCHANGED ligands
     \/ /\ ligands' \in SeqsUpTo(LigKinds, MaxL)
        /\ pc' = "select"
        /\ UNCHANGED << proc, statusWrites, ret >>
  /\ UNCHANGED << fnVars, dbVars, prepVars, worldVars, macs, loopVars, final, files >>

\* Mutant: the job fails only when both lists are empty.
NothingToProcess_Both(ms, ligs) == ms = <<>> /\ ligs = <<>>

\* get_macromolecules_for_process and the test "not macs or not ligands".
NothingToProcess(ms, ligs) == ms = <<>> \/ ligs = <<>>

SelectMacs ==
  /\ pc = "select"
  /\ \E ms \in SeqsUpTo(RecKinds, MaxR) :
       /\ macs' = ms
       /\ IF NothingToProcess(ms, ligands)
          THEN FailProcess("Sem macromoleculas ou ligantes para processar")
          ELSE /\ pc' = "rec"
               /\ UNCHANGED << proc, statusWrites, ret >>
  /\ UNCHANGED << fnVars, dbVars, prepVars, worldVars, ligands, loopVars, final, files, toolLog >>

\* Head of the receptor loop: builds rec_block (m.type.redocking is read
\* outside any try), resolves the field descriptor; a receptor that does not
\* resolve is recorded as skipped, with one error row per ligand.
BeginReceptor ==
  /\ pc = "rec"
  /\ ri <= Len(macs)
  /\ IF ~typeHasRedocking
     THEN /\ pc' = "crashed"
          /\ UNCHANGED loopVars
     ELSE IF macs[ri] = "nofld"
     THEN /\ rec_block' = SkippedRecBlock(ri, Len(ligands))
          /\ macs_results' = Append(macs_results, rec_block')
          /\ counters' = SkipCounters(counters, Len(ligands))
          /\ csv_rows' = csv_rows \o ReceptorErrorRows(ri, Len(ligands))
          /\ ri' = ri + 1
          /\ pc' = "rec"
          /\ UNCHANGED << li, ok_ligs, failed_ligs >>
     ELSE /\ rec_block' = NewRecBlock(ri)
          /\ ok_ligs' = 0
          /\ failed_ligs' = 0
          /\ li' = 1
          /\ pc' = "pairs"
          /\ UNCHANGED << ri, macs_results, csv_rows, counters >>
  /\ UNCHANGED << fnVars, dbVars, prepVars, worldVars, ligands, macs, proc, final, files, toolLog,
                  statusWrites, ret >>

\* Mutant: a pair whose attempt failed is attempted again.
NextLigand_RetryOnError(l, out) == IF out.status = "error" THEN l ELSE l + 1

\* "for lig in ligands": the loop goes on to the next ligand after the try
\* block, whichever branch it took.
NextLigand(l, out) == l + 1

\* One iteration of the ligand loop of a resolved receptor. Moving the
\* best-pose files to gbest_pdb has its own try and touches nothing below.
DockPair ==
  /\ pc = "pairs"
  /\ li <= Len(ligands)
  /\ LET out == PairOutcome(macs[ri], ligands[li])
     IN /\ toolLog' = Append(toolLog, DockCall(ri, li))
        /\ IF out.status = "success"
           THEN /\ ok_ligs' = ok_ligs + 1
                /\ counters' = [counters EXCEPT !.successful_combinations = @ + 1]
                /\ UNCHANGED failed_ligs
           ELSE /\ failed_ligs' = failed_ligs + 1
                /\ counters' = [counters EXCEPT !.failed_combinations = @ + 1]
                /\ UNCHANGED ok_ligs
        /\ csv_rows' = AppendPairRow(csv_rows, ri, li, out)
        /\ rec_block' = [rec_block EXCEPT !.ligantes = Append(@, LigResult(li, out))]
        /\ li' = NextLigand(li, out)
  /\ UNCHANGED << fnVars, dbVars, prepVars, worldVars, ligands, macs, proc, pc, ri, macs_results, final, files,
                  statusWrites, ret >>

\* Mutant: the closed block is saved on the job row as progress.
EndReceptor_SavesProgress ==
  /\ pc = "pairs"
  /\ li > Len(ligands)
  /\ rec_block' = ClosedRecBlock(rec_block, ok_ligs, failed_ligs)
  /\ macs_results' = Append(macs_results, rec_block')
  /\ ri' = ri + 1
  /\ pc' = "rec"
  /\ proc' = [proc EXCEPT !.resultado_final = [progress |-> macs_results']]
  /\ UNCHANGED << fnVars, dbVars, prepVars, worldVars, ligands, macs, li, ok_ligs, failed_ligs, csv_rows,
                  counters, final, files, toolLog, statusWrites, ret >>

\* After the last ligand: the receptor's counts and status close its block.
EndReceptor ==
  /\ pc = "pairs"
  /\ li > Len(ligands)
  /\ rec_block' = ClosedRecBlock(rec_block, ok_ligs, failed_ligs)
  /\ macs_results' = Append(macs_results, rec_block')
  /\ ri' = ri + 1
  /\ pc' = "rec"
  /\ UNCHANGED << fnVars, dbVars, prepVars, worldVars, ligands, macs, proc, li, ok_ligs, failed_ligs, csv_rows,
                  counters, final, files, toolLog, statusWrites, ret >>

\* After the last receptor: final status, message and payload.
DecideStatus ==
  /\ pc = "rec"
  /\ ri > Len(macs)
  /\ LET total == Len(macs) * Len(ligands)
     IN final' = [decided |-> TRUE,
                  final_status |-> FinalStatus(counters.successful_combinations, total),
                  results_payload |-> ResultsPayload(total, counters, Len(macs),
                                                     Len(ligands), macs_results),
                  zip_path |-> None]
  /\ pc' = "json"
  /\ UNCHANGED << fnVars, dbVars, prepVars, worldVars, ligands, macs, proc, loopVars, files, toolLog,
                  statusWrites, ret >>

\* json_path.write_text; an exception is logged.
WriteJson ==
  /\ pc = "json"
  /\ \E written \in BOOLEAN :
       files' = IF written THEN [files EXCEPT !.json = final.results_payload] ELSE files
  /\ pc' = "csv"
  /\ UNCHANGED << fnVars, dbVars, prepVars, worldVars, ligands, macs, proc, loopVars, final, toolLog,
                  statusWrites, ret >>

\* write_rows_csv; an exception is logged.
WriteCsv ==
  /\ pc = "csv"
  /\ \E written \in BOOLEAN :
       files' = IF written THEN [files EXCEPT !.csv = [lines |-> write_rows_csv(csv_rows)]] ELSE files
  /\ pc' = "zip"
  /\ UNCHANGED << fnVars, dbVars, prepVars, worldVars, ligands, macs, proc, loopVars, final, toolLog,
                  statusWrites, ret >>

\* zip_tree logs its own exceptions, so zip_path is kept whether or not the
\* archive was written.
WriteZip ==
  /\ pc = "zip"
  /\ \E written \in BOOLEAN : files' = [files EXCEPT !.zip = written]
  /\ final' = [final EXCEPT !.zip_path = ZipPath]
  /\ pc' = "update"
  /\ UNCHANGED << fnVars, dbVars, prepVars, worldVars, ligands, macs, proc, loopVars, toolLog, statusWrites, ret >>

\* Mutant: pathFileZIP is left out of the final save.
FinalRecord_NoZip(p, fin) ==
  [p EXCEPT !.resultado_final = fin.results_payload, !.status = fin.final_status]

\* The fields the final save stores on the Process row.
FinalRecord(p, fin) ==
  [p EXCEPT !.resultado_final = fin.results_payload,
            !.status = fin.final_status,
            !.pathFileZIP = fin.zip_path]

\* The final transaction; a database error leaves the task with an exception.
FinalUpdate ==
  /\ pc = "update"
  /\ \/ /\ proc' = FinalRecord(proc, final)
        /\ statusWrites' = Append(statusWrites, final.final_status)
        /\ ret' = [ok |-> final.results_payload.ok,
                   statistics |-> final.results_payload.statistics,
                   json |-> JsonPath, csv |-> CsvPath, zip |-> final.zip_path]
        /\ pc' = "done"
     \/ /\ pc' = "crashed"
        /\ UNCHANGED << proc, statusWrites, ret >>
  /\ UNCHANGED << fnVars, dbVars, prepVars, worldVars, ligands, macs, loopVars, final, files, toolLog >>

(***************************************************************************)
(* Receptor preparation: grid parameters.                                  *)
(* A text is null, or a string given by its tokens between commas and      *)
(* whitespace; empty is the empty string, which Python takes as false.     *)
(***************************************************************************)
NullText == [null |-> TRUE, empty |-> TRUE, tokens |-> <<>>]
EmptyText == [null |-> FALSE, empty |-> TRUE, tokens |-> <<>>]
Text(tokens) == [null |-> FALSE, empty |-> FALSE, tokens |-> tokens]
Truthy(text) == ~text.empty

\* Tokens: "60" is accepted by int() and float(), "10.5" by float() only,
\* "abc" by neither.
GridTokens == {"60", "10.5", "abc"}
IntOk(tok) == tok = "60"
FloatOk(tok) == tok \in {"60", "10.5"}
IntOf(tok) == 60
\* float(), in tenths
FloatOf(tok) == IF tok = "60" THEN 600 ELSE 105

\* Mutant: tokens after the third are ignored.
parse_triplet_int_AtLeast3(text) ==
  IF Len(text.tokens) < 3 THEN [error |-> "ValueError"]
  ELSE IF \E i \in 1..3 : ~IntOk(text.tokens[i]) THEN [error |-> "ValueError"]
  ELSE [error |-> None, value |-> [i \in 1..3 |-> IntOf(text.tokens[i])]]

\* _parse_triplet_int: a triple, or the ValueError of a wrong token count or
\* of int().
parse_triplet_int(text) ==
  IF Len(text.tokens) # 3 THEN [error |-> "ValueError"]
  ELSE IF \E i \in 1..3 : ~IntOk(text.tokens[i]) THEN [error |-> "ValueError"]
  ELSE [error |-> None, value |-> [i \in 1..3 |-> IntOf(text.tokens[i])]]

\* _parse_triplet_float
parse_triplet_float(text) ==
  IF Len(text.tokens) # 3 THEN [error |-> "ValueError"]
  ELSE IF \E i \in 1..3 : ~FloatOk(text.tokens[i]) THEN [error |-> "ValueError"]
  ELSE [error |-> None, value |-> [i \in 1..3 |-> FloatOf(text.tokens[i])]]

NoGrid == [present |-> FALSE]
GridParams(size, center) == [present |-> TRUE, size |-> size, center |-> center]

\* GridParams.from_strings: the parameters, none, or the ValueError of a parse.
from_strings(size_str, center_str) ==
  LET size == IF Truthy(size_str) THEN parse_triplet_int(size_str)
              ELSE [error |-> None, absent |-> TRUE]
      center == IF Truthy(center_str) THEN parse_triplet_float(center_str)
                ELSE [error |-> None, absent |-> TRUE]
  IN IF size.error # None THEN [error |-> "ValueError"]
     ELSE IF center.error # None THEN [error |-> "ValueError"]
     ELSE IF "value" \in DOMAIN size /\ "value" \in DOMAIN center
          THEN [error |-> None, params |-> GridParams(size.value, center.value)]
          ELSE [error |-> None, params |-> NoGrid]

\* calculate_ligand_center of the ligand file, in tenths: <<>> is None.
LigandCentroid == << 15, 25, 35 >>
calculate_ligand_center(lig) == IF lig = "coords" THEN << LigandCentroid >> ELSE <<>>

\* Mutant: with a centroid and no size text a default box is taken.
ResolveGrid_DefaultSize(size_str, center_str, lig) ==
  LET direct == from_strings(size_str, center_str)
  IN IF direct.error # None THEN direct
     ELSE IF direct.params.present THEN direct
     ELSE IF lig \in {"coords", "nocoords"} /\ calculate_ligand_center(lig) # <<>>
          THEN LET size == IF Truthy(size_str) THEN parse_triplet_int(size_str)
                           ELSE [error |-> None, value |-> << 60, 60, 60 >>]
               IN IF size.error # None THEN [error |-> "ValueError"]
                  ELSE [error |-> None,
                        params |-> GridParams(size.value, calculate_ligand_center(lig)[1])]
          ELSE [error |-> "ValueError"]

\* Step 2 of prepare_macromolecule: from_strings, then the centroid of the
\* ligand when that gave nothing, then the ValueError of missing parameters.
ResolveGrid(size_str, center_str, lig) ==
  LET direct == from_strings(size_str, center_str)
  IN IF direct.error # None THEN direct
     ELSE IF direct.params.present THEN direct
     ELSE IF lig \in {"coords", "nocoords"}
               /\ calculate_ligand_center(lig) # <<>> /\ Truthy(size_str)
          THEN LET size == parse_triplet_int(size_str)
               IN IF size.error # None THEN [error |-> "ValueError"]
                  ELSE [error |-> None,
                        params |-> GridParams(size.value, calculate_ligand_center(lig)[1])]
          ELSE [error |-> "ValueError"]

(***************************************************************************)
(* Receptor preparation: docking result and write-back.                    *)
(***************************************************************************)
\* DockingResult(): absent values are <<>>.
DockingResult(best_rmsd, best_energy, xml_path, success) ==
  [best_rmsd |-> best_rmsd, best_energy |-> best_energy, xml_path |-> xml_path,
   success |-> success]
DefaultDockingResult == DockingResult(<<>>, <<>>, None, FALSE)

RECURSIVE ParseBestFrom(_, _, _)
ParseBestFrom(runs, i, best) ==
  IF i > Len(runs) THEN [error |-> FALSE, best |-> best]
  ELSE LET el == runs[i]
       IN IF (el.reference_rmsd.present /\ ~el.reference_rmsd.ok)
               \/ (el.binding_energy.present /\ ~el.binding_energy.ok)
          THEN [error |-> TRUE, best |-> <<>>]
          ELSE LET energy == IF el.binding_energy.present THEN el.binding_energy.v ELSE 0
               IN IF el.reference_rmsd.present
                       /\ (best = <<>> \/ el.reference_rmsd.v < best[1])
                  THEN ParseBestFrom(runs, i + 1, << el.reference_rmsd.v, energy >>)
                  ELSE ParseBestFrom(runs, i + 1, best)

\* Mutant: among runs of equal reference_rmsd the last one is taken.
RECURSIVE ParseBestFrom_LastOnTies(_, _, _)
ParseBestFrom_LastOnTies(runs, i, best) ==
  IF i > Len(runs) THEN [error |-> FALSE, best |-> best]
  ELSE LET el == runs[i]
       IN IF (el.reference_rmsd.present /\ ~el.reference_rmsd.ok)
               \/ (el.binding_energy.present /\ ~el.binding_energy.ok)
          THEN [error |-> TRUE, best |-> <<>>]
          ELSE LET energy == IF el.binding_energy.present THEN el.binding_energy.v ELSE 0
               IN IF el.reference_rmsd.present
                       /\ (best = <<>> \/ el.reference_rmsd.v <= best[1])
                  THEN ParseBestFrom_LastOnTies(runs, i + 1, << el.reference_rmsd.v, energy >>)
                  ELSE ParseBestFrom_LastOnTies(runs, i + 1, best)
parse_best_from_xml_LastOnTies(runs) ==
  LET r == ParseBestFrom_LastOnTies(runs, 1, <<>>)
  IN IF r.error THEN <<>> ELSE r.best

\* _parse_best_from_xml: <<rmsd, energy>>, or <<>> for None (no run, no run
\* with a reference_rmsd, or a ValueError anywhere in the loop).
parse_best_from_xml(runs) ==
  LET r == ParseBestFrom(runs, 1, <<>>)
  IN IF r.error THEN <<>> ELSE r.best

\* What the docking engine does in run_docking: it fails or times out, or it
\* exits with zero and leaves no report ("noxml") or the report given.
DockOutcomes ==
  {[tool |-> "failed"], [tool |-> "timeout"], [tool |-> "noxml"],
   [tool |-> "xml", runs |-> GoodReport], [tool |-> "xml", runs |-> NoRunReport]}

\* Mutant: an engine that failed or timed out still counts as having run.
run_docking_RanOnFailure(out) ==
  IF out.tool \in {"failed", "timeout", "noxml"} THEN DockingResult(<<>>, <<>>, None, TRUE)
  ELSE LET best == parse_best_from_xml(out.runs)
       IN IF best = <<>> THEN DockingResult(<<>>, <<>>, "docking_result.xml", TRUE)
          ELSE DockingResult(<< best[1] >>, << best[2] >>, "docking_result.xml", TRUE)

\* run_docking for an existing ligand_pdbqt.
run_docking(out) ==
  IF out.tool \in {"failed", "timeout"} THEN DefaultDockingResult
  ELSE IF out.tool = "noxml" THEN DockingResult(<<>>, <<>>, None, TRUE)
  ELSE LET best == parse_best_from_xml(out.runs)
       IN IF best = <<>> THEN DockingResult(<<>>, <<>>, "docking_result.xml", TRUE)
          ELSE DockingResult(<< best[1] >>, << best[2] >>, "docking_result.xml", TRUE)

\* f"{x:.3f}" and f"{x:.2f}" of a value in tenths: the digits and their scale.
FormatFixed(tenths, decimals) ==
  [digits |-> IF decimals = 3 THEN tenths * 100 ELSE tenths * 10, decimals |-> decimals]

NoMac == [rmsd_redocking |-> Null, energia_original |-> Null, pathFilefld |-> "dest_dir"]
FldPath == "workdir/receptor.maps.fld"

\* The row after _update_database found it and saved the new values.
UpdatedMac(row, res, fld_path) ==
  [rmsd_redocking |-> IF res.best_rmsd # <<>> THEN FormatFixed(res.best_rmsd[1], 3)
                      ELSE row.rmsd_redocking,
   energia_original |-> IF res.best_energy # <<>> THEN FormatFixed(res.best_energy[1], 2)
                        ELSE row.energia_original,
   pathFilefld |-> fld_path]

(***************************************************************************)
(* Receptor preparation: the task.                                         *)
(***************************************************************************)
max_retries == 3
NumPartitions == 11

\* Outcome of one conversion or grid tool: exit 0 with its output file,
\* non-zero exit, timeout, or exit 0 without the output file.
ToolOutcomes == {"ok", "failed", "timeout", "nooutput"}

\* Mutant: the partition loops stop one partition early.
LastPartition_Early(p) == p >= NumPartitions - 1

\* The end of "for i, ... in enumerate(LIGAND_GROUPS, start=1)" and of the
\* loop over the gpf files it produced.
LastPartition(p) == p = NumPartitions

\* One external process of the attempt: the tool, the partition it ran for
\* (0 outside the partition loops) and how it ended.
PrepCall(tool, i, out) == [tool |-> tool, i |-> i, out |-> out]

\* Mutant: the caller goes on whatever the process did.
ToolRaises_Never(out) == FALSE

\* ProcessExecutor.run and the check of the output file after it: what makes
\* the caller raise RuntimeError.
ToolRaises(out) == out # "ok"

\* The sets of inputs the preparation is run on.
PrepSizeTexts ==
  {NullText, EmptyText, Text(<<"60", "60", "60">>), Text(<<"60", "60">>),
   Text(<<"60", "abc", "60">>), Text(<<"60", "60", "60", "60">>)}
PrepCenterTexts ==
  {NullText, EmptyText, Text(<<"10.5", "60", "10.5">>), Text(<<"10.5", "60">>),
   Text(<<"60", "abc", "60">>)}

InitPrepState ==
  /\ prepPc = "start"
  /\ retries = 0
  /\ prepErr = None
  /\ part = 1
  /\ grid_params = NoGrid
  /\ fld = "none"
  /\ ligand_pdbqt = FALSE
  /\ docking_result = DefaultDockingResult
  /\ mac = NoMac
  /\ prepCalls = <<>>
  /\ prepResult = Null

InitPrepInputs ==
  /\ prepToolsOk \in BOOLEAN
  /\ receptorExists \in BOOLEAN
  /\ gridsize \in PrepSizeTexts
  /\ gridcenter \in PrepCenterTexts
  /\ ligandFile \in {"none", "missing", "coords", "nocoords"}
  /\ macromolecule_id \in {"none", "found", "notfound"}

\* No preparation task is enqueued.
PrepIdle ==
  /\ prepToolsOk = TRUE
  /\ receptorExists = TRUE
  /\ gridsize = NullText
  /\ gridcenter = NullText
  /\ ligandFile = "none"
  /\ macromolecule_id = "none"
  /\ InitPrepState

\* Mutant: every exception is handed to self.retry.
IsRetryable_Always(kind) == TRUE

\* "Retry se nao for erro de validacao": the exception classes the except
\* block hands to self.retry.
IsRetryable(kind) == kind \notin {"ValueError", "FileNotFoundError"}

\* The except block of the task: self.retry schedules a new delivery while
\* retries < max_retries and raises otherwise; validation errors are raised.
Raise(kind) ==
  /\ prepErr' = kind
  /\ prepPc' = IF IsRetryable(kind) /\ retries < max_retries THEN "retry" ELSE "failed"

\* mkdir of the workdir and ToolPaths.get_instance().
PrepStart ==
  /\ prepPc = "start"
  /\ IF ~prepToolsOk
     THEN Raise("RuntimeError")
     ELSE /\ prepPc' = "receptor"
          /\ UNCHANGED prepErr
  /\ UNCHANGED << fnVars, dbVars, batchVars, prepInputs, retries, part, grid_params, fld, ligand_pdbqt,
                  docking_result, mac, prepCalls, prepResult >>

\* prepare_receptor
PrepReceptor ==
  /\ prepPc = "receptor"
  /\ IF ~receptorExists
     THEN /\ Raise("FileNotFoundError")
          /\ UNCHANGED prepCalls
     ELSE \E out \in ToolOutcomes :
            /\ prepCalls' = Append(prepCalls, PrepCall("prepare_receptor", 0, out))
            /\ IF ToolRaises(out)
               THEN Raise("RuntimeError")
               ELSE /\ prepPc' = "grid"
                    /\ UNCHANGED prepErr
  /\ UNCHANGED << fnVars, dbVars, batchVars, prepInputs, retries, part, grid_params, fld, ligand_pdbqt,
                  docking_result, mac, prepResult >>

\* Grid parameters from the texts or the ligand.
PrepGrid ==
  /\ prepPc = "grid"
  /\ LET g == ResolveGrid(gridsize, gridcenter, ligandFile)
     IN IF g.error # None
        THEN /\ Raise(g.error)
             /\ UNCHANGED << grid_params, part >>
        ELSE /\ grid_params' = g.params
             /\ part' = 1
             /\ prepPc' = "gpf"
             /\ UNCHANGED prepErr
  /\ UNCHANGED << fnVars, dbVars, batchVars, prepInputs, retries, fld, ligand_pdbqt, docking_result,
                  mac, prepCalls, prepResult >>

\* prepare_gpf_files: one partition per step, then the parameter_file line.
PrepGpf ==
  /\ prepPc = "gpf"
  /\ \E out \in ToolOutcomes :
       /\ prepCalls' = Append(prepCalls, PrepCall("prepare_gpf", part, out))
       /\ IF ToolRaises(out)
          THEN /\ Raise("RuntimeError")
               /\ UNCHANGED part
          ELSE /\ part' = IF LastPartition(part) THEN 1 ELSE part + 1
               /\ prepPc' = IF LastPartition(part) THEN "autogrid" ELSE "gpf"
               /\ UNCHANGED prepErr
  /\ UNCHANGED << fnVars, dbVars, batchVars, prepInputs, retries, grid_params, fld, ligand_pdbqt,
                  docking_result, mac, prepResult >>

\* run_autogrid: one partition per step; after the last one the glob for
\* *.maps.fld.
PrepAutogrid ==
  /\ prepPc = "autogrid"
  /\ \E out \in {"ok", "failed", "timeout"} :
       /\ prepCalls' = Append(prepCalls, PrepCall("autogrid", part, out))
       /\ IF ToolRaises(out)
          THEN /\ Raise("RuntimeError")
               /\ UNCHANGED << part, fld >>
          ELSE IF ~LastPartition(part)
          THEN /\ part' = part + 1
               /\ prepPc' = "autogrid"
               /\ UNCHANGED << prepErr, fld >>
          ELSE \/ /\ fld' = "raw"
                  /\ prepPc' = "postprocess"
                  /\ UNCHANGED << prepErr, part >>
               \/ /\ fld = "none"
                  /\ Raise("RuntimeError")
                  /\ UNCHANGED << part, fld >>
  /\ UNCHANGED << fnVars, dbVars, batchVars, prepInputs, retries, grid_params, ligand_pdbqt,
                  docking_result, mac, prepResult >>

\* postprocess_fld
PrepPostprocess ==
  /\ prepPc = "postprocess"
  /\ fld' = "final"
  /\ prepPc' = "ligand"
  /\ UNCHANGED << fnVars, dbVars, batchVars, prepInputs, retries, prepErr, part, grid_params,
                  ligand_pdbqt, docking_result, mac, prepCalls, prepResult >>

\* prepare_ligand, when a ligand_filename was given.
PrepLigand ==
  /\ prepPc = "ligand"
  /\ IF ligandFile \in {"none", "missing"}
     THEN /\ ligand_pdbqt' = FALSE
          /\ prepPc' = "docking"
          /\ UNCHANGED << prepErr, prepCalls >>
     ELSE \E out \in ToolOutcomes :
            /\ prepCalls' = Append(prepCalls, PrepCall("prepare_ligand", 0, out))
            /\ IF ToolRaises(out)
               THEN /\ Raise("RuntimeError")
                    /\ UNCHANGED ligand_pdbqt
               ELSE /\ ligand_pdbqt' = TRUE
                    /\ prepPc' = "docking"
                    /\ UNCHANGED prepErr
  /\ UNCHANGED << fnVars, dbVars, batchVars, prepInputs, retries, part, grid_params, fld,
                  docking_result, mac, prepResult >>

\* Mutant: step 7 runs the engine whether or not there is a ligand.
RunsDocking_Always(lp) == TRUE

\* "if ligand_pdbqt:" of step 7.
RunsDocking(lp) == lp

\* run_docking, when prepare_ligand returned a path.
PrepDocking ==
  /\ prepPc = "docking"
  /\ IF ~RunsDocking(ligand_pdbqt)
     THEN /\ docking_result' = DefaultDockingResult
          /\ UNCHANGED prepCalls
     ELSE \E out \in DockOutcomes :
            /\ prepCalls' = Append(prepCalls, PrepCall("autodock_gpu", 0, out.tool))
            /\ docking_result' = run_docking(out)
  /\ prepPc' = "dbupdate"
  /\ UNCHANGED << fnVars, dbVars, batchVars, prepInputs, retries, prepErr, part, grid_params, fld,
                  ligand_pdbqt, mac, prepResult >>

\* Whether step 8 calls _update_database.
WritesBack(id, res) == id # "none" /\ res.success

\* _update_database and the result dict of the task.
PrepUpdateDb ==
  /\ prepPc = "dbupdate"
  /\ \E db_updated \in BOOLEAN :
       /\ IF WritesBack(macromolecule_id, docking_result)
          THEN \/ /\ macromolecule_id = "found"
                  /\ db_updated
                  /\ mac' = UpdatedMac(mac, docking_result, FldPath)
               \/ /\ ~db_updated
                  /\ UNCHANGED mac
          ELSE /\ ~db_updated
               /\ UNCHANGED mac
       /\ prepResult' = [ok |-> TRUE, fld |-> FldPath, gpf_count |-> NumPartitions,
                         gridcenter |-> grid_params.center, gridsize |-> grid_params.size,
                         docking_ran |-> docking_result.success,
                         best_reference_rmsd |-> docking_result.best_rmsd,
                         best_binding_energy |-> docking_result.best_energy,
                         db_updated |-> db_updated]
  /\ prepPc' = "succeeded"
  /\ UNCHANGED << fnVars, dbVars, batchVars, prepInputs, retries, prepErr, part, grid_params, fld,
                  ligand_pdbqt, docking_result, prepCalls >>

\* The delivery self.retry scheduled: the task starts again from its first
\* line, with request.retries one higher.
PrepRetry ==
  /\ prepPc = "retry"
  /\ retries' = retries + 1
  /\ prepPc' = "start"
  /\ prepErr' = None
  /\ part' = 1
  /\ grid_params' = NoGrid
  /\ ligand_pdbqt' = FALSE
  /\ docking_result' = DefaultDockingResult
  /\ prepCalls' = <<>>
  /\ UNCHANGED << fnVars, dbVars, batchVars, prepInputs, fld, mac, prepResult >>

NextPrep ==
  \/ PrepStart
  \/ PrepReceptor
  \/ PrepGrid
  \/ PrepGpf
  \/ PrepAutogrid
  \/ PrepPostprocess
  \/ PrepLigand
  \/ PrepDocking
  \/ PrepUpdateDb
  \/ PrepRetry

(***************************************************************************)
(* The result extractors applied to a report: extract_best_from_xml of the *)
(* batch task and _parse_best_from_xml of the preparation task.            *)
(* A report is absent, not well-formed XML, XML without an rmsd_table, or  *)
(* the run elements of its rmsd_table.                                     *)
(***************************************************************************)
Document(kind, runs) == [kind |-> kind, runs |-> runs]

RunElems ==
  {Run(r, e, n) : r \in {Attr(13), Attr(21), BadAttr, MissingAttr},
                  e \in {Attr(-50), Attr(-99), BadAttr, MissingAttr},
                  n \in {Attr(1), Attr(2), BadAttr}}

Reports ==
  {Document(k, <<>>) : k \in {"absent", "unparsable", "notable"}}
    \cup {Document("runs", rs) : rs \in SeqsUpTo(RunElems, MaxRuns) \cup {GoodReport, NoRunReport}}

\* extract_best_from_xml on a report file: ensure_exists, ET.parse, the
\* search for rmsd_table, the loop over the runs; it returns the triple or
\* raises.
ExtractFromDocument(doc) ==
  CASE doc.kind = "absent" -> [raised |-> "FileNotFoundError"]
    [] doc.kind = "unparsable" -> [raised |-> "ParseError"]
    [] doc.kind = "notable" -> [raised |-> "ValueError"]
    [] OTHER ->
         LET best == extract_best_from_xml(doc.runs)
         IN IF best = <<>> THEN [raised |-> "ValueError"]
            ELSE [raised |-> None, value |-> best]

\* What run_docking gets from a report: no text to parse when there is no
\* report, else _parse_best_from_xml, which returns a pair or None.
ParseFromDocument(doc) ==
  CASE doc.kind \in {"absent", "unparsable", "notable"} -> [raised |-> None, value |-> <<>>]
    [] OTHER -> [raised |-> None, value |-> parse_best_from_xml(doc.runs)]

ExtractIdle ==
  /\ report = Document("absent", <<>>)
  /\ xBatch = Null
  /\ xPrep = Null

InitExtract ==
  /\ report \in Reports
  /\ xBatch = Null
  /\ xPrep = Null

ApplyBatchExtractor ==
  /\ IsNull(xBatch)
  /\ xBatch' = ExtractFromDocument(report)
  /\ UNCHANGED << batchVars, prepVars, dbVars, artVars, dirVars, twoVars, invVars, cenVars, gridVars, report, xPrep >>

ApplyPrepExtractor ==
  /\ IsNull(xPrep)
  /\ xPrep' = ParseFromDocument(report)
  /\ UNCHANGED << batchVars, prepVars, dbVars, artVars, dirVars, twoVars, invVars, cenVars, gridVars, report, xBatch >>

NextExtract ==
  \/ ApplyBatchExtractor
  \/ ApplyPrepExtractor

(***************************************************************************)
(* The artifacts of the preparation pipeline.  A file is the sequence of   *)
(* its lines, <<>> when it does not exist; an external tool that exits     *)
(* with zero either wrote its output file anew ("ok") or left the          *)
(* directory as it was ("nooutput").                                       *)
(***************************************************************************)
fld_cutoff_line == 23
RawLens == {fld_cutoff_line - 1, fld_cutoff_line, fld_cutoff_line + 2}
receptor_name == "receptor"

Line(kind, n, name) == [kind |-> kind, n |-> n, name |-> name]
NoFile == <<>>
ReceptorPdbqt == << Line("pdbqt", 1, None) >>
FreshGpf == << Line("gpf", 1, None), Line("gpf", 2, None) >>
RawFld(n) == [i \in 1..n |-> Line("fld", i, None)]

\* textfld(): the fixed trailer, with the placeholder where the receptor
\* name goes.
textfld == << Line("template", 1, "kakakakaka"), Line("template", 2, "kakakakaka") >>
ReplaceName(text, old, new) ==
  [i \in DOMAIN text |-> IF text[i].name = old THEN [text[i] EXCEPT !.name = new] ELSE text[i]]

\* What "-o <name>" leaves at <name> after the tool exited with zero.
ToolOutput_KeepExisting(existing, fresh, out) ==
  IF out = "ok" /\ existing = NoFile THEN fresh ELSE existing
ToolOutput(existing, fresh, out) == IF out = "ok" THEN fresh ELSE existing

\* _prepend_parameter_file
prepend_parameter_file(content) == << Line("parameter_file", 0, None) >> \o content

\* postprocess_fld on an existing file
\* Mutant: every line of the file is kept.
keep_lines_All(lines) == lines
keep_lines(lines) ==
  IF Len(lines) >= fld_cutoff_line THEN SubSeq(lines, 1, fld_cutoff_line) ELSE lines
postprocess_fld(lines, name) == keep_lines(lines) \o ReplaceName(textfld, "kakakakaka", name)

EmptyDir == [receptor |-> NoFile, gpfTop |-> 0, gpf |-> NoFile, fld |-> NoFile]

ArtIdle ==
  /\ watched = 1 /\ rawLen = fld_cutoff_line
  /\ wdir = EmptyDir
  /\ aPc = "idle" /\ aPart = 1 /\ aAttempt = 0 /\ aWrote = TRUE /\ aRuns = 0

InitArt ==
  /\ watched \in 1..NumPartitions
  /\ rawLen \in RawLens
  /\ wdir = EmptyDir
  /\ aPc = "receptor" /\ aPart = 1 /\ aAttempt = 0 /\ aWrote = TRUE /\ aRuns = 0

\* ProcessExecutor.run raises: non-zero exit or timeout.
ExecutorRaises(out) == out \in {"failed", "timeout"}

ArtFrame == << batchVars, prepVars, dbVars, extractVars, dirVars, twoVars, invVars, cenVars, gridVars,
              watched, rawLen >>

ArtRaise ==
  /\ aPc' = "failed"
  /\ UNCHANGED << aPart, aRuns >>

\* prepare_receptor
ArtReceptor ==
  /\ aPc = "receptor"
  /\ \E out \in ToolOutcomes :
       IF ExecutorRaises(out)
       THEN ArtRaise /\ UNCHANGED << wdir, aWrote >>
       ELSE LET f == ToolOutput(wdir.receptor, ReceptorPdbqt, out)
            IN /\ wdir' = [wdir EXCEPT !.receptor = f]
               /\ aWrote' = (aWrote /\ out = "ok")
               /\ IF f = NoFile THEN ArtRaise
                  ELSE aPc' = "gpf" /\ UNCHANGED << aPart, aRuns >>
  /\ UNCHANGED << ArtFrame, aAttempt >>

\* prepare_single_gpf for the partition aPart
ArtGpf ==
  /\ aPc = "gpf"
  /\ \E out \in ToolOutcomes :
       IF ExecutorRaises(out)
       THEN ArtRaise /\ UNCHANGED << wdir, aWrote >>
       ELSE LET exists == aPart <= wdir.gpfTop \/ out = "ok"
                f == ToolOutput(wdir.gpf, FreshGpf, out)
            IN /\ aWrote' = (aWrote /\ out = "ok")
               /\ IF ~exists THEN ArtRaise /\ UNCHANGED wdir
                  ELSE /\ wdir' = [wdir EXCEPT
                              !.gpfTop = IF aPart > @ THEN aPart ELSE @,
                              !.gpf = IF aPart = watched THEN prepend_parameter_file(f) ELSE @]
                       /\ aPart' = IF LastPartition(aPart) THEN 1 ELSE aPart + 1
                       /\ aPc' = IF LastPartition(aPart) THEN "autogrid" ELSE "gpf"
                       /\ UNCHANGED aRuns
  /\ UNCHANGED << ArtFrame, aAttempt >>

\* run_autogrid: one autogrid4 per gpf, then the glob for *.maps.fld
ArtAutogrid ==
  /\ aPc = "autogrid"
  /\ \E out \in ToolOutcomes :
       IF ExecutorRaises(out)
       THEN ArtRaise /\ UNCHANGED << wdir, aWrote >>
       ELSE LET f == ToolOutput(wdir.fld, RawFld(rawLen), out)
            IN /\ wdir' = [wdir EXCEPT !.fld = f]
               /\ aWrote' = (aWrote /\ out = "ok")
               /\ IF ~LastPartition(aPart)
                  THEN aPart' = aPart + 1 /\ UNCHANGED << aPc, aRuns >>
                  ELSE IF f = NoFile THEN ArtRaise
                  ELSE aPc' = "postprocess" /\ aPart' = 1 /\ UNCHANGED aRuns
  /\ UNCHANGED << ArtFrame, aAttempt >>

\* postprocess_fld on the descriptor run_autogrid returned
ArtPostprocess ==
  /\ aPc = "postprocess"
  /\ wdir' = [wdir EXCEPT !.fld = postprocess_fld(@, receptor_name)]
  /\ aPc' = "done"
  /\ aRuns' = aRuns + 1
  /\ UNCHANGED << ArtFrame, aPart, aAttempt, aWrote >>

\* self.retry: after a failure of the pipeline, or of the ligand and docking
\* steps that follow it, the whole task body runs again in the same directory.
ArtRetry ==
  /\ aPc \in {"failed", "done"}
  /\ aAttempt < max_retries
  /\ aAttempt' = aAttempt + 1
  /\ aPc' = "receptor"
  /\ aPart' = 1
  /\ aWrote' = TRUE
  /\ UNCHANGED << ArtFrame, wdir, aRuns >>

NextArt ==
  \/ ArtReceptor
  \/ ArtGpf
  \/ ArtAutogrid
  \/ ArtPostprocess
  \/ ArtRetry

(***************************************************************************)
(* Working directories: MacromoleculeCreateSerializer.create and           *)
(* ProcessCreateSerializer.create choose the directory and enqueue the     *)
(* job; workers take queued jobs in any number at a time.                  *)
(***************************************************************************)
\* Names as uploaded, and what django.utils.text.slugify makes of them:
\* lower case, characters outside [a-z0-9_-] and white space dropped.
FileStems == {"1cjb_a", "1CJB_A", "2xyz", "###"}
TypeNames == {"falciparum", "vivax"}
UserNames == {"ana", "Ana"}
ProcNames == {"run", ""}

slugify(s) ==
  CASE s = "1CJB_A" -> "1cjb_a"
    [] s = "Ana" -> "ana"
    [] s = "Run" -> "run"
    [] s = "###" -> ""
    [] OTHER -> s

Dir(root, a, b, c, id) == [root |-> root, a |-> a, b |-> b, c |-> c, id |-> id]

\* dest_dir of MacromoleculeCreateSerializer.create
MacromoleculeDir(type_name, redocking, rec_stem) ==
  Dir("molecules",
      IF slugify(type_name) = "" THEN "tipo" ELSE slugify(type_name),
      IF redocking THEN "true" ELSE "false",
      IF slugify(rec_stem) = "" THEN "receptor" ELSE slugify(rec_stem),
      << 0, 0 >>)

\* dest_dir of ProcessCreateSerializer.create: the slug of "<username>-<id>"
\* and of "<nome or 'processo'>-<instance.id>"; the ids stay apart from the
\* names because a slug keeps its last hyphen.
ProcessDir(username, user_id, nome, id) ==
  Dir("processes",
      slugify(username),
      "user",
      slugify(IF nome = "" THEN "processo" ELSE nome),
      << user_id, id >>)

\* prepare_process_dirs: the base directory of a batch run is the directory
\* of the SDF file.
prepare_process_dirs(sdf_dir) == sdf_dir

Job(kind, dir) == [kind |-> kind, dir |-> dir, state |-> "queued"]

DirIdle == jobs = <<>> /\ procIds = 0
InitDirs == jobs = <<>> /\ procIds = 0

DirFrame == << batchVars, prepVars, dbVars, extractVars, artVars, twoVars, invVars, cenVars, gridVars >>

CreateMacromolecule ==
  /\ Len(jobs) < MaxJobs
  /\ \E t \in TypeNames, red \in BOOLEAN, stem \in FileStems :
       jobs' = Append(jobs, Job("prepare_macromolecule", MacromoleculeDir(t, red, stem)))
  /\ UNCHANGED << DirFrame, procIds >>

CreateProcess ==
  /\ Len(jobs) < MaxJobs
  /\ procIds' = procIds + 1
  /\ \E u \in UserNames, uid \in 1..2, nome \in ProcNames :
       jobs' = Append(jobs, Job("run_plasmodocking_process",
                                prepare_process_dirs(ProcessDir(u, uid, nome, procIds'))))
  /\ UNCHANGED DirFrame

\* A worker takes a queued job; any number of jobs run at a time.
StartJob ==
  /\ \E i \in DOMAIN jobs :
       /\ jobs[i].state = "queued"
       /\ jobs' = [jobs EXCEPT ![i].state = "running"]
  /\ UNCHANGED << DirFrame, procIds >>

EndJob ==
  /\ \E i \in DOMAIN jobs :
       /\ jobs[i].state = "running"
       /\ jobs' = [jobs EXCEPT ![i].state = "ended"]
  /\ UNCHANGED << DirFrame, procIds >>

NextDirs ==
  \/ CreateMacromolecule
  \/ CreateProcess
  \/ StartJob
  \/ EndJob

(***************************************************************************)
(* Order of the ledger: two runs of run_plasmodocking_process on the same  *)
(* rows, the same split ligands and the same directories.  rec is the rank *)
(* of the receptor name in the collation; a directory holds one or two     *)
(* *.maps.fld files.                                                       *)
(***************************************************************************)
Runs == {1, 2}
RecRanks == {1, 2}
FldSets == {{"a.maps.fld"}, {"a.maps.fld", "b.maps.fld"}}
MacRow(rec, flds) == [rec |-> rec, flds |-> flds]

\* The lists a set of files or rows can be returned as.
Listings(S) ==
  {s \in [1..Cardinality(S) -> S] : \A i, j \in DOMAIN s : i # j => s[i] # s[j]}

\* order_by("rec"): the rows ascending by rec; rows of equal rec in the
\* order the database happens to return them.
OrderedByRec(ids) ==
  {s \in Listings(ids) : \A i, j \in DOMAIN s : i < j => tMacs[s[i]].rec <= tMacs[s[j]].rec}
get_macromolecules_for_process(ids) == OrderedByRec(ids)

\* sorted(out_dir.glob("*.pdbqt")): the ligand files in ascending name order
split_sdf_to_pdbqt(n) == [i \in 1..n |-> i]

\* list(fld_path.glob("*.maps.fld")): the directory listing, in the order
\* the file system yields it
GlobFld(flds) == Listings(flds)

LedgerEntry(id, rec, fld_path, lig) ==
  [macromolecule_id |-> id, rec |-> rec, fld |-> fld_path, ligand |-> lig]

TwoIdle ==
  /\ tMacs = << >> /\ tLigands = 0
  /\ tQuery = [r \in Runs |-> << >>]
  /\ tLedger = [r \in Runs |-> << >>]
  /\ tPc = [r \in Runs |-> "idle"]
  /\ tRi = [r \in Runs |-> 1]

InitTwo ==
  /\ \E n \in 1..MaxR : tMacs \in [1..n -> {MacRow(rec, f) : rec \in RecRanks, f \in FldSets}]
  /\ tLigands \in 1..MaxL
  /\ tQuery = [r \in Runs |-> << >>]
  /\ tLedger = [r \in Runs |-> << >>]
  /\ tPc = [r \in Runs |-> "select"]
  /\ tRi = [r \in Runs |-> 1]

TwoFrame == << batchVars, prepVars, dbVars, extractVars, artVars, dirVars, invVars, cenVars, gridVars,
              tMacs, tLigands >>

TwoSelect(r) ==
  /\ tPc[r] = "select"
  /\ \E q \in get_macromolecules_for_process(DOMAIN tMacs) :
       tQuery' = [tQuery EXCEPT ![r] = q]
  /\ tPc' = [tPc EXCEPT ![r] = "loop"]
  /\ UNCHANGED << TwoFrame, tLedger, tRi >>

\* One receptor of the loop: found[0] of the listing, then one entry per
\* ligand in the order of the ligand list.
TwoReceptor(r) ==
  /\ tPc[r] = "loop"
  /\ LET id == tQuery[r][tRi[r]]
         ligs == split_sdf_to_pdbqt(tLigands)
     IN \E found \in GlobFld(tMacs[id].flds) :
          tLedger' = [tLedger EXCEPT ![r] =
                        @ \o [k \in DOMAIN ligs |->
                                 LedgerEntry(id, tMacs[id].rec, found[1], ligs[k])]]
  /\ tRi' = [tRi EXCEPT ![r] = @ + 1]
  /\ tPc' = [tPc EXCEPT ![r] = IF tRi[r] = Len(tQuery[r]) THEN "done" ELSE "loop"]
  /\ UNCHANGED << TwoFrame, tQuery >>

NextTwo ==
  \E r \in Runs :
    \/ TwoSelect(r)
    \/ TwoReceptor(r)

(***************************************************************************)
(* The tool invokers: run_cmd of the batch task, ProcessExecutor.run and   *)
(* ProcessExecutor.run_capture of the preparation task.  Each is one       *)
(* subprocess.run(..., check=True, timeout=timeout) and the handling of    *)
(* what it raises.                                                         *)
(***************************************************************************)
Invokers == {"run_cmd", "ProcessExecutor.run", "ProcessExecutor.run_capture"}
Timeouts == {300, 600}

\* A started process: the seconds it would run, its exit code, its output.
ProcEnds ==
  [elapsed : {100, 400, 700}, returncode : {0, 1, 2},
   stdout : {"", "out"}, stderr : {"", " ", "warning"}]

\* subprocess.run with check=True: the process is killed at the timeout,
\* else a non-zero return code raises, else the completed process.
subprocess_run(p, timeout) ==
  IF p.elapsed > timeout THEN [raised |-> "TimeoutExpired"]
  ELSE IF p.returncode # 0 THEN [raised |-> "CalledProcessError"]
  ELSE [raised |-> None, stdout |-> p.stdout, stderr |-> p.stderr]

\* run_cmd: both exceptions are logged and raised again.
run_cmd(completed) ==
  IF completed.raised # None THEN [raised |-> completed.raised]
  ELSE [raised |-> None, value |-> completed.stdout]

ProcessExecutor_run_StderrFails(completed) ==
  IF completed.raised # None THEN [raised |-> "RuntimeError"]
  ELSE IF completed.stderr \notin {"", " "} THEN [raised |-> "RuntimeError"]
  ELSE [raised |-> None, value |-> None]
\* ProcessExecutor.run: both exceptions become RuntimeError; stderr is logged
\* as a warning; nothing is returned.
ProcessExecutor_run(completed) ==
  IF completed.raised # None THEN [raised |-> "RuntimeError"]
  ELSE [raised |-> None, value |-> None]

\* ProcessExecutor.run_capture: the same, returning stdout.
ProcessExecutor_run_capture(completed) ==
  IF completed.raised # None THEN [raised |-> "RuntimeError"]
  ELSE [raised |-> None, value |-> completed.stdout]

InvIdle ==
  /\ invoker = "run_cmd" /\ cmdTimeout = 600
  /\ procEnd = [elapsed |-> 100, returncode |-> 0, stdout |-> "", stderr |-> ""]
  /\ spawned = 0 /\ iPc = "idle" /\ iResult = Null

InitInv ==
  /\ invoker \in Invokers
  /\ cmdTimeout \in Timeouts
  /\ procEnd \in ProcEnds
  /\ spawned = 0 /\ iPc = "call" /\ iResult = Null

InvFrame == << batchVars, prepVars, dbVars, extractVars, artVars, dirVars, twoVars, cenVars, gridVars,
              invoker, cmdTimeout, procEnd >>

\* The call enters subprocess.run: the process is started.
InvokeSpawn ==
  /\ iPc = "call"
  /\ spawned' = spawned + 1
  /\ iPc' = "running"
  /\ UNCHANGED << InvFrame, iResult >>

\* subprocess.run ends and the invoker returns or raises.
InvokeReturn ==
  /\ iPc = "running"
  /\ LET completed == subprocess_run(procEnd, cmdTimeout)
     IN iResult' = CASE invoker = "run_cmd" -> run_cmd(completed)
                     [] invoker = "ProcessExecutor.run" -> ProcessExecutor_run(completed)
                     [] OTHER -> ProcessExecutor_run_capture(completed)
  /\ iPc' = "returned"
  /\ UNCHANGED << InvFrame, spawned >>

NextInv ==
  \/ InvokeSpawn
  \/ InvokeReturn

(***************************************************************************)
(* calculate_ligand_center over the lines of a structure file.  A line is  *)
(* its record tag, whether it has at least 54 characters, and the three    *)
(* coordinate columns, each a number (in tenths) float() accepts or not.   *)
(***************************************************************************)
Coord(v) == [ok |-> TRUE, v |-> v]
BadCoord == [ok |-> FALSE, v |-> 0]
PdbLine(tag, long, x, y, z) == [tag |-> tag, long |-> long, x |-> x, y |-> y, z |-> z]

PdbLines ==
  {PdbLine(tag, TRUE, x, y, z) :
     tag \in {"ATOM", "HETATM"}, x \in {Coord(10), Coord(30), BadCoord},
     y \in {Coord(20), BadCoord}, z \in {Coord(-30), BadCoord}}
    \cup {PdbLine("ATOM", FALSE, Coord(10), Coord(20), BadCoord),
          PdbLine("REMARK", TRUE, Coord(10), Coord(20), Coord(-30))}

Structures == {[exists |-> FALSE, lines |-> <<>>]}
                \cup {[exists |-> TRUE, lines |-> ls] : ls \in SeqsUpTo(PdbLines, MaxLines)}

\* The loop over the lines: coords.append for a line that passes the test
\* and all three float() calls, continue on ValueError.
RECURSIVE CoordsFrom(_, _, _)
CoordsFrom_AbortOnMalformed(lines, i, coords) ==
  IF i > Len(lines) THEN coords
  ELSE LET l == lines[i]
       IN IF l.tag \in {"ATOM", "HETATM"} /\ l.long
          THEN IF l.x.ok /\ l.y.ok /\ l.z.ok
               THEN CoordsFrom(lines, i + 1, Append(coords, << l.x.v, l.y.v, l.z.v >>))
               ELSE <<>>
          ELSE CoordsFrom(lines, i + 1, coords)
CoordsFrom(lines, i, coords) ==
  IF i > Len(lines) THEN coords
  ELSE LET l == lines[i]
       IN IF l.tag \in {"ATOM", "HETATM"} /\ l.long
          THEN IF l.x.ok /\ l.y.ok /\ l.z.ok
               THEN CoordsFrom(lines, i + 1, Append(coords, << l.x.v, l.y.v, l.z.v >>))
               ELSE CoordsFrom(lines, i + 1, coords)
          ELSE CoordsFrom(lines, i + 1, coords)

RECURSIVE SumAxis(_, _)
SumAxis(coords, k) ==
  IF coords = <<>> THEN 0 ELSE Head(coords)[k] + SumAxis(Tail(coords), k)

\* The mean of the coordinates, kept as the three sums and the count.
Mean(coords) == [sums |-> << SumAxis(coords, 1), SumAxis(coords, 2), SumAxis(coords, 3) >>,
                 n |-> Len(coords)]

\* calculate_ligand_center on the file: None for a missing file, for no
\* coordinates and for any exception; it never raises.
CenterOfStructure(s) ==
  IF ~s.exists THEN [raised |-> None, value |-> <<>>]
  ELSE LET coords == CoordsFrom(s.lines, 1, <<>>)
       IN IF coords # <<>> THEN [raised |-> None, value |-> << Mean(coords) >>]
          ELSE [raised |-> None, value |-> <<>>]

CenIdle == structure = [exists |-> FALSE, lines |-> <<>>] /\ centroid = Null
InitCen == structure \in Structures /\ centroid = Null

ApplyCentroid ==
  /\ IsNull(centroid)
  /\ centroid' = CenterOfStructure(structure)
  /\ UNCHANGED << batchVars, prepVars, dbVars, extractVars, artVars, dirVars, twoVars, invVars,
                  gridVars, structure >>

NextCen == ApplyCentroid

(***************************************************************************)
(* GridParams.from_strings on the characters of the two texts. A text is   *)
(* a sequence of one-character strings; a size is written from integers    *)
(* and a center from floats, kept in tenths (one digit after the point).   *)
(***************************************************************************)
Digits == << "0", "1", "2", "3", "4", "5", "6", "7", "8", "9" >>
IsDigit(c) == \E d \in 1..10 : Digits[d] = c
DigitOf(c) == (CHOOSE d \in 1..10 : Digits[d] = c) - 1
Whitespace == {" ", "\t"}

\* str(n) of an integer and repr(x) of a float given in tenths.
RECURSIVE DigitsOfNat(_)
DigitsOfNat(n) ==
  IF n < 10 THEN << Digits[n + 1] >>
  ELSE DigitsOfNat(n \div 10) \o << Digits[(n % 10) + 1] >>
StrInt(n) == IF n < 0 THEN << "-" >> \o DigitsOfNat(0 - n) ELSE DigitsOfNat(n)
StrFloat(t) ==
  LET a == IF t < 0 THEN 0 - t ELSE t
  IN (IF t < 0 THEN << "-" >> ELSE <<>>) \o DigitsOfNat(a \div 10) \o << "." >>
       \o << Digits[(a % 10) + 1] >>

\* The text of three tokens with the separator between them and the padding
\* around them.
JoinTokens(toks, sep, pad) == pad \o toks[1] \o sep \o toks[2] \o sep \o toks[3] \o pad

\* s.replace(",", " ")
ReplaceCommas(s) == [i \in 1..Len(s) |-> IF s[i] = "," THEN " " ELSE s[i]]

\* str.split() without arguments: the maximal runs of non-whitespace.
RECURSIVE SplitFrom(_, _, _, _)
SplitFrom(s, i, cur, acc) ==
  IF i > Len(s) THEN (IF cur = <<>> THEN acc ELSE Append(acc, cur))
  ELSE IF s[i] \in Whitespace
       THEN SplitFrom(s, i + 1, <<>>, IF cur = <<>> THEN acc ELSE Append(acc, cur))
       ELSE SplitFrom(s, i + 1, Append(cur, s[i]), acc)

\* Mutant: the commas are left in the text before it is split.
split_parts_KeepCommas(s) == SplitFrom(s, 1, <<>>, <<>>)

\* parts = [p for p in s.replace(",", " ").split() if p]
split_parts(s) == SplitFrom(ReplaceCommas(s), 1, <<>>, <<>>)

\* The value of a run of digits, most significant first.
RECURSIVE NatOf(_, _)
NatOf(ds, acc) == IF ds = <<>> THEN acc ELSE NatOf(Tail(ds), 10 * acc + DigitOf(Head(ds)))
AllDigits(ds) == ds # <<>> /\ \A i \in 1..Len(ds) : IsDigit(ds[i])
Unsigned(tok) == IF tok # <<>> /\ Head(tok) \in {"-", "+"} THEN Tail(tok) ELSE tok
Sign(tok) == IF tok # <<>> /\ Head(tok) = "-" THEN 0 - 1 ELSE 1

\* int(p): an optional sign and digits; anything else is a ValueError.
int_of(tok) ==
  IF AllDigits(Unsigned(tok))
  THEN [error |-> None, value |-> Sign(tok) * NatOf(Unsigned(tok), 0)]
  ELSE [error |-> "ValueError"]

\* float(p), in tenths: an optional sign, digits, and optionally a point and
\* one more digit; anything else among the tokens written here is a ValueError.
PointAt(u) == {i \in 1..Len(u) : u[i] = "."}
float_of(tok) ==
  LET u == Unsigned(tok)
  IN IF AllDigits(u) THEN [error |-> None, value |-> Sign(tok) * 10 * NatOf(u, 0)]
     ELSE IF PointAt(u) = {Len(u) - 1} /\ AllDigits(SubSeq(u, 1, Len(u) - 2))
               /\ IsDigit(u[Len(u)])
          THEN [error |-> None,
                value |-> Sign(tok) * (10 * NatOf(SubSeq(u, 1, Len(u) - 2), 0)
                                       + DigitOf(u[Len(u)]))]
          ELSE [error |-> "ValueError"]

\* _parse_triplet_int and _parse_triplet_float on the characters.
GridParams_parse_triplet_int(s) ==
  LET parts == split_parts(s)
  IN IF Len(parts) # 3 THEN [error |-> "ValueError"]
     ELSE IF \E i \in 1..3 : int_of(parts[i]).error # None THEN [error |-> "ValueError"]
     ELSE [error |-> None, value |-> [i \in 1..3 |-> int_of(parts[i]).value]]

GridParams_parse_triplet_float(s) ==
  LET parts == split_parts(s)
  IN IF Len(parts) # 3 THEN [error |-> "ValueError"]
     ELSE IF \E i \in 1..3 : float_of(parts[i]).error # None THEN [error |-> "ValueError"]
     ELSE [error |-> None, value |-> [i \in 1..3 |-> float_of(parts[i]).value]]

\* from_strings: a text is parsed when it is not empty, and the parameters
\* are built when both triplets came out (a triplet of three is never falsy).
GridParams_from_strings(size_str, center_str) ==
  LET size == IF size_str # <<>> THEN GridParams_parse_triplet_int(size_str)
              ELSE [error |-> None, absent |-> TRUE]
      center == IF center_str # <<>> THEN GridParams_parse_triplet_float(center_str)
                ELSE [error |-> None, absent |-> TRUE]
  IN IF size.error # None THEN [error |-> "ValueError"]
     ELSE IF center.error # None THEN [error |-> "ValueError"]
     ELSE IF "value" \in DOMAIN size /\ "value" \in DOMAIN center
          THEN [error |-> None, params |-> GridParams(size.value, center.value)]
          ELSE [error |-> None, params |-> NoGrid]

SizeValues == {0, 7, 60}
CenterValues == {0 - 15, 0, 105}
Separators == {<< "," >>, << " " >>, << ",", " " >>, << "\t" >>}
Paddings == {<<>>, << " " >>}
Triples(S) == {<< a, b, c >> : a \in S, b \in S, c \in S}

GridIdle ==
  /\ gValues = [size |-> << 0, 0, 0 >>, center |-> << 0, 0, 0 >>]
  /\ gSep = [sep |-> << " " >>, pad |-> <<>>]
  /\ gTexts = Null
  /\ gParams = Null

InitGrid ==
  /\ gValues \in [size : Triples(SizeValues), center : Triples(CenterValues)]
  /\ gSep \in [sep : Separators, pad : Paddings]
  /\ gTexts = Null
  /\ gParams = Null

GridFrame == << batchVars, prepVars, dbVars, extractVars, artVars, dirVars, twoVars, invVars,
                cenVars >>

\* The client writes the two texts from the numbers.
WriteGridTexts ==
  /\ IsNull(gTexts)
  /\ gTexts' = [size |-> JoinTokens([i \in 1..3 |-> StrInt(gValues.size[i])],
                                    gSep.sep, gSep.pad),
                center |-> JoinTokens([i \in 1..3 |-> StrFloat(gValues.center[i])],
                                      gSep.sep, gSep.pad)]
  /\ UNCHANGED << GridFrame, gValues, gSep, gParams >>

\* The task parses them.
ApplyFromStrings ==
  /\ ~IsNull(gTexts)
  /\ IsNull(gParams)
  /\ gParams' = GridParams_from_strings(gTexts.size, gTexts.center)
  /\ UNCHANGED << GridFrame, gValues, gSep, gTexts >>

NextGrid == WriteGridTexts \/ ApplyFromStrings

FnIdle == ExtractIdle /\ ArtIdle /\ DirIdle /\ TwoIdle /\ InvIdle /\ CenIdle /\ GridIdle

(***************************************************************************)
(* Write-back under concurrency: _update_database, one step per database   *)
(* statement. The database is PostgreSQL (settings.py): a statement of a   *)
(* transaction is seen by others when the transaction commits, and SELECT  *)
(* ... FOR UPDATE waits while another transaction holds the row lock.      *)
(***************************************************************************)
Writers == 1..MaxWriters

\* Field-descriptor path of writer w's working directory.
FldOf(w) ==
  CASE w = 1 -> "workdir1/receptor.maps.fld"
    [] w = 2 -> "workdir2/receptor.maps.fld"
    [] OTHER -> "workdir3/receptor.maps.fld"

\* The results a writer may hold when step 8 calls _update_database: the
\* engine ran, with or without a parsed best pose.
WriterResults(w) ==
  {DockingResult(<< 10 * w + 3 >>, << 0 - 10 * w >>, "docking_result.xml", TRUE),
   DockingResult(<<>>, <<>>, None, TRUE)}

DbIdle ==
  /\ rowExists = TRUE
  /\ wres = [w \in Writers |-> DefaultDockingResult]
  /\ wpc = [w \in Writers |-> "done"]
  /\ rowLock = 0
  /\ wobj = [w \in Writers |-> Null]
  /\ wret = [w \in Writers |-> None]
  /\ observed = NoMac

InitDb ==
  /\ rowExists \in BOOLEAN
  /\ wres \in [Writers -> UNION {WriterResults(w) : w \in Writers}]
  /\ \A w \in Writers : wres[w] \in WriterResults(w)
  /\ wpc = [w \in Writers |-> "select"]
  /\ rowLock = 0
  /\ wobj = [w \in Writers |-> Null]
  /\ wret = [w \in Writers |-> None]
  /\ observed = NoMac

\* Mutant: the row is selected without FOR UPDATE.
RowLockFree_Always(l) == TRUE

\* select_for_update(): the statement returns when no other transaction
\* holds the lock of the row.
RowLockFree(l) == l = 0

\* transaction.atomic() and the SELECT ... FOR UPDATE of the row: no row,
\* return False; else the transaction holds the lock and obj is the row.
DbSelect(w) ==
  /\ wpc[w] = "select"
  /\ IF ~rowExists
     THEN /\ wpc' = [wpc EXCEPT ![w] = "done"]
          /\ wret' = [wret EXCEPT ![w] = "False"]
          /\ UNCHANGED << rowLock, wobj >>
     ELSE /\ RowLockFree(rowLock)
          /\ rowLock' = w
          /\ wobj' = [wobj EXCEPT ![w] = mac]
          /\ wpc' = [wpc EXCEPT ![w] = "save"]
          /\ UNCHANGED wret
  /\ UNCHANGED << fnVars, batchVars, prepVars, rowExists, wres, observed >>

\* The assignments to obj and obj.save(update_fields=...): one UPDATE inside
\* the transaction; a database error rolls the transaction back and the
\* function returns False.
DbSave(w) ==
  /\ wpc[w] = "save"
  /\ \/ /\ wobj' = [wobj EXCEPT ![w] = UpdatedMac(wobj[w], wres[w], FldOf(w))]
        /\ wpc' = [wpc EXCEPT ![w] = "commit"]
        /\ UNCHANGED << rowLock, wret >>
     \/ /\ wobj' = [wobj EXCEPT ![w] = Null]
        /\ rowLock' = IF rowLock = w THEN 0 ELSE rowLock
        /\ wret' = [wret EXCEPT ![w] = "False"]
        /\ wpc' = [wpc EXCEPT ![w] = "done"]
  /\ UNCHANGED << fnVars, batchVars, prepVars, rowExists, wres, observed >>

\* The end of the atomic block: the commit makes the UPDATE visible and
\* releases the lock, and the function returns True; a failing commit rolls
\* back and the function returns False.
DbCommit(w) ==
  /\ wpc[w] = "commit"
  /\ \/ /\ mac' = wobj[w]
        /\ wret' = [wret EXCEPT ![w] = "True"]
     \/ /\ wret' = [wret EXCEPT ![w] = "False"]
        /\ UNCHANGED mac
  /\ rowLock' = IF rowLock = w THEN 0 ELSE rowLock
  /\ wobj' = [wobj EXCEPT ![w] = Null]
  /\ wpc' = [wpc EXCEPT ![w] = "done"]
  /\ UNCHANGED << fnVars, batchVars, prepRest, rowExists, wres, observed >>

\* A reader of the row (the batch task, a view): it sees what is committed.
DbRead ==
  /\ rowExists
  /\ observed' = mac
  /\ UNCHANGED << fnVars, batchVars, prepVars, rowExists, wres, wpc, rowLock, wobj, wret >>

NextDb ==
  \/ \E w \in Writers : DbSelect(w)
  \/ \E w \in Writers : DbSave(w)
  \/ \E w \in Writers : DbCommit(w)
  \/ DbRead

NextBatch ==
  \/ StartRun
  \/ ValidateTools
  \/ ValidateSdf
  \/ SplitLigands
  \/ SelectMacs
  \/ BeginReceptor
  \/ DockPair
  \/ EndReceptor
  \/ DecideStatus
  \/ WriteJson
  \/ WriteCsv
  \/ WriteZip
  \/ FinalUpdate

\* At-least-once delivery: after the task returned or raised, the queue may
\* hand the same process id to a worker again. The row, the files on disk and
\* the history of status writes stay; what the task holds in local variables
\* starts anew, and toolLog is the log of the delivery that is running.
\* A redelivery is followed after runs of at most MaxRedeliveredPairs pairs.
Deliveries == Cardinality({i \in 1..Len(statusWrites) : statusWrites[i] = PROCESSANDO})
Redeliver ==
  /\ pc \in {"done", "crashed"}
  /\ Deliveries < MaxDeliveries
  /\ Len(macs) * Len(ligands) <= MaxRedeliveredPairs
  /\ pc' = "queued"
  /\ ligands' = <<>>
  /\ macs' = <<>>
  /\ ri' = 1
  /\ li' = 1
  /\ rec_block' = NoBlock
  /\ ok_ligs' = 0
  /\ failed_ligs' = 0
  /\ macs_results' = <<>>
  /\ csv_rows' = <<>>
  /\ counters' = NoCounters
  /\ final' = NoFinal
  /\ toolLog' = <<>>
  /\ ret' = Null
  /\ UNCHANGED << fnVars, dbVars, prepVars, worldVars, proc, files, statusWrites >>

NextRedelivery ==
  \/ NextBatch
  \/ Redeliver

\* No batch task is enqueued.
BatchIdle ==
  /\ jobExists = FALSE
  /\ toolsPresent = {}
  /\ sdfState = "null"
  /\ typeHasRedocking = FALSE
  /\ ligands = <<>>
  /\ macs = <<>>
  /\ proc = [status |-> EM_FILA, resultado_final |-> Null, pathFileZIP |-> None]
  /\ pc = "idle"
  /\ ri = 1
  /\ li = 1
  /\ rec_block = NoBlock
  /\ ok_ligs = 0
  /\ failed_ligs = 0
  /\ macs_results = <<>>
  /\ csv_rows = <<>>
  /\ counters = NoCounters
  /\ final = NoFinal
  /\ files = NoFiles
  /\ toolLog = <<>>
  /\ statusWrites = <<>>
  /\ ret = Null

\* One batch process task.
Init == InitBatch /\ PrepIdle /\ DbIdle /\ FnIdle
Next == NextBatch
Spec == Init /\ [][Next]_vars

\* One receptor preparation task with its retries.
InitPrep == BatchIdle /\ InitPrepInputs /\ InitPrepState /\ DbIdle /\ FnIdle
SpecPrep == InitPrep /\ [][NextPrep]_vars

\* One batch process task delivered up to MaxDeliveries times.
SpecRedelivery == Init /\ [][NextRedelivery]_vars

\* The worker runs every step of a delivered task to its end (each external
\* process has a timeout) and the queue delivers every scheduled retry.
SpecPrepFair == SpecPrep /\ WF_vars(NextPrep)

\* Concurrent write-backs to one row, and a reader.
InitWriteBack == BatchIdle /\ PrepIdle /\ InitDb /\ FnIdle
SpecDb == InitWriteBack /\ [][NextDb]_vars

\* One report handed to each of the two extractors.
InitExtractors == BatchIdle /\ PrepIdle /\ DbIdle /\ InitExtract /\ ArtIdle /\ DirIdle /\ TwoIdle /\ InvIdle /\ CenIdle /\ GridIdle
SpecExtract == InitExtractors /\ [][NextExtract]_vars

\* The attempts of one receptor preparation in its working directory.
InitArtifacts == BatchIdle /\ PrepIdle /\ DbIdle /\ ExtractIdle /\ InitArt /\ DirIdle /\ TwoIdle /\ InvIdle /\ CenIdle /\ GridIdle
SpecArtifacts == InitArtifacts /\ [][NextArt]_vars

\* Jobs being created and run.
InitJobs == BatchIdle /\ PrepIdle /\ DbIdle /\ ExtractIdle /\ ArtIdle /\ InitDirs /\ TwoIdle /\ InvIdle /\ CenIdle /\ GridIdle
SpecDirs == InitJobs /\ [][NextDirs]_vars

\* One call of an invoker on one external process.
InitInvocation ==
  BatchIdle /\ PrepIdle /\ DbIdle /\ ExtractIdle /\ ArtIdle /\ DirIdle /\ TwoIdle /\ InitInv /\ CenIdle /\ GridIdle
SpecInvoke == InitInvocation /\ [][NextInv]_vars

\* One centroid computation on one structure file.
InitCentroid ==
  BatchIdle /\ PrepIdle /\ DbIdle /\ ExtractIdle /\ ArtIdle /\ DirIdle /\ TwoIdle /\ InvIdle /\ InitCen /\ GridIdle
SpecCentroid == InitCentroid /\ [][NextCen]_vars

\* One pair of grid texts written from numbers and parsed.
InitGridTexts ==
  BatchIdle /\ PrepIdle /\ DbIdle /\ ExtractIdle /\ ArtIdle /\ DirIdle /\ TwoIdle /\ InvIdle /\ CenIdle /\ InitGrid
SpecGrid == InitGridTexts /\ [][NextGrid]_vars

\* Two batch runs on the same inputs.
InitTwoRuns == BatchIdle /\ PrepIdle /\ DbIdle /\ ExtractIdle /\ ArtIdle /\ DirIdle /\ InitTwo /\ InvIdle /\ CenIdle /\ GridIdle
SpecTwoRuns == InitTwoRuns /\ [][NextTwo]_vars

(***************************************************************************)
(* Properties of the batch process task.                                   *)
(***************************************************************************)
Terminal == {CONCLUIDO, ERROR}
RunEnded == pc \in {"done", "crashed"}
ReachedPersistence == final.decided

Count(rows, P(_)) == Cardinality({i \in 1..Len(rows) : P(rows[i])})
RowsOf(rec, lig) ==
  {i \in 1..Len(csv_rows) : csv_rows[i].RECEPTOR_REC = rec /\ csv_rows[i].LIGAND_FILE = lig}
IsDockCall(c) == c.tool = "autodock_gpu"
DockCallsOf(rec, lig) == {i \in 1..Len(toolLog) : toolLog[i] = DockCall(rec, lig)}
DockCallsOfRec(rec) ==
  {i \in 1..Len(toolLog) : IsDockCall(toolLog[i]) /\ toolLog[i].rec = rec}
Skipped == {r \in 1..Len(macs) : macs[r] = "nofld"}
Resolved == {r \in 1..Len(macs) : macs[r] # "nofld"}
\* Receptors the loop has left behind, and pairs it has left behind.
ReceptorsDone == {r \in 1..Len(macs) : r < ri}
PairsDone ==
  {p \in Resolved \X (1..Len(ligands)) :
     p[1] < ri \/ (p[1] = ri /\ pc = "pairs" /\ p[2] < li)}

\* C1: in a run on an existing job the status is saved as PROCESSANDO before
\* any check or tool invocation, and then saved exactly once more, as
\* CONCLUIDO or ERROR, when the run ends; no other status is saved.
C1_StatusWrittenTwice ==
  /\ (statusWrites = <<>> => toolLog = <<>> /\ pc \in {"queued", "done"})
  /\ (statusWrites # <<>> => statusWrites[1] = PROCESSANDO)
  /\ Len(statusWrites) <= 2
  /\ (RunEnded /\ jobExists =>
        /\ Len(statusWrites) = 2
        /\ statusWrites[2] \in Terminal
        /\ proc.status = statusWrites[2])

\* C2: a run that saved PROCESSANDO never ends with the job still in
\* PROCESSANDO: when it ends the stored status is CONCLUIDO or ERROR.
C2_NeverLeftRunning ==
  RunEnded /\ statusWrites # <<>> => proc.status \in Terminal

\* C3: at the end of the main loop the final status is ERROR when the ledger
\* holds no success entry and CONCLUIDO when it holds at least one, whatever
\* else failed or was skipped; the stored status of a finished run is that one.
C3_FinalStatusRule ==
  ReachedPersistence =>
    /\ (Count(csv_rows, IsSuccessRow) = 0 => final.final_status = ERROR)
    /\ (Count(csv_rows, IsSuccessRow) >= 1 => final.final_status = CONCLUIDO)
    /\ (pc = "done" => proc.status = final.final_status)

C3_Witness ==
  /\ pc = "done" /\ ReachedPersistence
  /\ proc.status = CONCLUIDO
  /\ Count(csv_rows, IsPairErrorRow) >= 1
  /\ Count(csv_rows, IsReceptorErrorRow) >= 1

\* C4: every skipped receptor leaves exactly one receptor-level error entry
\* per ligand and no docking invocation; every pair of the other receptors
\* is attempted by its own docking invocation; at the end of the loop all R
\* receptors were handled, so there are k x L receptor-level entries and
\* (R - k) x L docking invocations.
C4_SkippedReceptors ==
  /\ \A r \in ReceptorsDone \cap Skipped :
       /\ DockCallsOfRec(r) = {}
       /\ \A l \in 1..Len(ligands) :
            /\ Cardinality(RowsOf(r, l)) = 1
            /\ \A i \in RowsOf(r, l) : IsReceptorErrorRow(csv_rows[i])
  /\ \A r \in ReceptorsDone \cap Resolved :
       \A l \in 1..Len(ligands) :
         /\ Cardinality(DockCallsOf(r, l)) = 1
         /\ \A i \in RowsOf(r, l) : ~IsReceptorErrorRow(csv_rows[i])
  /\ \A r \in (1..Len(macs)) \ ReceptorsDone :
       \A l \in 1..Len(ligands) : \A i \in RowsOf(r, l) : r = ri /\ pc = "pairs"
  /\ (ReachedPersistence =>
        /\ ReceptorsDone = 1..Len(macs)
        /\ Count(csv_rows, IsReceptorErrorRow) = Cardinality(Skipped) * Len(ligands)
        /\ Count(toolLog, IsDockCall) = Cardinality(Resolved) * Len(ligands))

C4_Witness ==
  /\ ReachedPersistence
  /\ Len(macs) = 2 /\ macs[1] = "nofld" /\ macs[2] = "ok"
  /\ Len(ligands) >= 2
  /\ Count(toolLog, IsDockCall) = Len(ligands)

\* C5: every pair of a resolved receptor the loop has handled has exactly one
\* ledger entry: a success entry with RMSD, energy and run index of the best
\* pose when the engine ran and a pose was extracted, else an error entry
\* with the message of the exception; a failed pair stops neither the
\* receptor nor the batch, so at the end of the loop every such pair has its
\* entry and every receptor block lists all ligands.
C5_OneEntryPerPair ==
  /\ \A p \in PairsDone :
       /\ Cardinality(RowsOf(p[1], p[2])) = 1
       /\ \A i \in RowsOf(p[1], p[2]) :
            IF macs[p[1]] = "ok" /\ ligands[p[2]] = "ok"
            THEN /\ IsSuccessRow(csv_rows[i]) /\ ~IsErrorRow(csv_rows[i])
                 /\ csv_rows[i].BEST_REFERENCE_RMSD = 13
                 /\ csv_rows[i].BEST_BINDING_ENERGY = -62
                 /\ csv_rows[i].BEST_RUN = 2
            ELSE /\ IsPairErrorRow(csv_rows[i]) /\ ~IsSuccessRow(csv_rows[i])
                 /\ csv_rows[i].ERROR \in
                      {"CalledProcessError", "TimeoutExpired", "Nenhum run valido"}
  /\ (ReachedPersistence =>
        /\ PairsDone = Resolved \X (1..Len(ligands))
        /\ \A b \in 1..Len(macs_results) :
             macs_results[b].status # "error" =>
               Len(macs_results[b].ligantes) = Len(ligands))

C5_Witness ==
  /\ ReachedPersistence
  /\ \E r \in Resolved :
       /\ macs[r] = "ok"
       /\ Len(ligands) >= 2 /\ ligands[1] = "timeout" /\ ligands[2] = "ok"
       /\ \E i, j \in 1..Len(csv_rows) :
            /\ i < j
            /\ csv_rows[i].RECEPTOR_REC = r /\ IsPairErrorRow(csv_rows[i])
            /\ csv_rows[j].RECEPTOR_REC = r /\ IsSuccessRow(csv_rows[j])

\* C6: from the end of the main loop on, the statistics agree with the
\* ledger: total = R x L = number of entries, successful = number of success
\* entries, failed = number of error entries (L for every skipped receptor),
\* successful + failed = total, skipped receptors = k, and the ok and failed
\* counts of every receptor block sum to L. With two receptors, one of them
\* without field descriptor, and three ligands, one of which times out, a
\* finished run has total 6, successful 2, failed 4 and status CONCLUIDO.
C6_Example ==
  /\ Len(macs) = 2 /\ Len(ligands) = 3
  /\ \E r \in 1..2 : macs[r] = "nofld" /\ macs[3 - r] = "ok"
  /\ \E l \in 1..3 : ligands[l] = "timeout" /\ \A k \in (1..3) \ {l} : ligands[k] = "ok"

C6_StatisticsExact ==
  ReachedPersistence =>
    LET st == final.results_payload.statistics
    IN /\ st.total_combinations = Len(macs) * Len(ligands)
       /\ st.total_combinations = Len(csv_rows)
       /\ st.successful_combinations = Count(csv_rows, IsSuccessRow)
       /\ st.failed_combinations = Count(csv_rows, IsErrorRow)
       /\ st.failed_combinations >= Cardinality(Skipped) * Len(ligands)
       /\ st.successful_combinations + st.failed_combinations = st.total_combinations
       /\ st.skipped_receptors = Cardinality(Skipped)
       /\ st.total_receptors = Len(macs) /\ st.total_ligands = Len(ligands)
       /\ Len(final.results_payload.macromolecules) = Len(macs)
       /\ \A b \in 1..Len(macs) :
            LET block == final.results_payload.macromolecules[b]
            IN block.ligantes_ok + block.ligantes_failed = Len(ligands)
       /\ (pc = "done" => proc.resultado_final.statistics = st)
       /\ (C6_Example /\ pc = "done" =>
             /\ st.total_combinations = 6
             /\ st.successful_combinations = 2
             /\ st.failed_combinations = 4
             /\ proc.status = CONCLUIDO)

C6_Witness ==
  /\ C6_Example
  /\ pc = "done"
  /\ proc.status = CONCLUIDO
  /\ Count(csv_rows, IsReceptorErrorRow) = 3
  /\ \E i \in 1..Len(csv_rows) : IsErrorRow(csv_rows[i]) /\ csv_rows[i].ERROR = "TimeoutExpired"

\* C7: no pair is attempted and no ledger entry exists unless both
\* executables exist, the input file exists and both the ligand list and the
\* receptor list are non-empty; a run that finds one of them missing ends at
\* once with status ERROR and an error record, without ledger entry, docking
\* invocation or artifact.
C7_PreconditionFails ==
  \/ FirstMissingTool(toolsPresent) # None
  \/ sdfState = "missing"
  \/ macs = <<>>
  \/ ligands = <<>>

C7_Preconditions ==
  /\ (Count(toolLog, IsDockCall) > 0 \/ csv_rows # <<>> \/ pc \in {"rec", "pairs"}
        \/ ReachedPersistence
      => ~C7_PreconditionFails)
  /\ (FirstMissingTool(toolsPresent) # None \/ sdfState = "missing" => toolLog = <<>>)
  /\ (pc = "done" /\ jobExists /\ C7_PreconditionFails =>
        /\ proc.status = ERROR
        /\ "error" \in DOMAIN proc.resultado_final
        /\ ~proc.resultado_final.ok
        /\ statusWrites = << PROCESSANDO, ERROR >>
        /\ ~ret.ok
        /\ csv_rows = <<>> /\ macs_results = <<>>
        /\ Count(toolLog, IsDockCall) = 0
        /\ files = NoFiles)

C7_Witness ==
  /\ pc = "done"
  /\ ligands # <<>> /\ macs = <<>>
  /\ proc.status = ERROR
  /\ toolLog = << ObabelCall >>

\* C8 (as stated): after the final update the job record holds the paths of
\* all three artifacts.
StoredPaths(p) == {p.pathFileZIP}

FirstDockCall(rec, lig) == CHOOSE i \in DockCallsOf(rec, lig) : TRUE

\* C12: the batch run never invokes the docking engine a second time for a
\* pair: every pair the loop has handled for a resolved receptor has exactly
\* one invocation, also when that invocation failed, timed out or left no
\* usable report; a pair of a skipped receptor has none; the invocations are
\* made in pair order, and a run that reaches persistence made one for each
\* pair of each resolved receptor.
C12_NoPairRetry ==
  /\ \A r \in 1..Len(macs) : \A l \in 1..Len(ligands) :
       /\ Cardinality(DockCallsOf(r, l)) <= 1
       /\ (<< r, l >> \in PairsDone => Cardinality(DockCallsOf(r, l)) = 1)
       /\ (r \in Skipped => DockCallsOf(r, l) = {})
  /\ Count(toolLog, IsDockCall) = Cardinality(PairsDone)
  /\ \A p, q \in PairsDone :
       (p[1] < q[1] \/ (p[1] = q[1] /\ p[2] < q[2])) =>
          FirstDockCall(p[1], p[2]) < FirstDockCall(q[1], q[2])
  /\ (ReachedPersistence => PairsDone = Resolved \X (1..Len(ligands)))

C12_Witness ==
  /\ ReachedPersistence
  /\ \E r, s \in 1..Len(macs) : macs[r] = "nofld" /\ macs[s] = "bad"
  /\ \E l, k \in 1..Len(ligands) : ligands[l] = "timeout" /\ ligands[k] = "norun"
  /\ Count(csv_rows, IsSuccessRow) = 0
  /\ Count(toolLog, IsDockCall) = Len(ligands)

(***************************************************************************)
(* Properties of the receptor preparation task.                            *)
(***************************************************************************)
InputErrors == {"ValueError", "FileNotFoundError"}
PrepEnded == prepPc \in {"failed", "succeeded"}
PrepPastGrid ==
  prepPc \in {"gpf", "autogrid", "postprocess", "ligand", "docking", "dbupdate", "succeeded"}

\* C9: an attempt that raises an input error (receptor file not found,
\* malformed or missing grid specification) ends the job as failed with no
\* retry scheduled; an attempt that raises anything else is retried from the
\* first step while fewer than max_retries retries were made and fails the
\* job after that, so a job makes at most max_retries + 1 = 4 attempts and
\* every job ends.
C9_Policy ==
  /\ retries <= max_retries
  /\ retries + 1 <= 4
  /\ (prepErr \in InputErrors => prepPc = "failed")
  /\ (prepErr \notin InputErrors /\ prepErr # None =>
        \/ prepPc = "retry" /\ retries < max_retries
        \/ prepPc = "failed" /\ retries = max_retries)
  /\ (prepPc \in {"retry", "failed"} <=> prepErr # None)
  /\ (prepToolsOk /\ ~receptorExists =>
        /\ retries = 0
        /\ prepPc \in {"start", "receptor", "failed"}
        /\ prepCalls = <<>>)
  /\ (ResolveGrid(gridsize, gridcenter, ligandFile).error # None =>
        /\ ~PrepPastGrid
        /\ (prepErr \in InputErrors /\ receptorExists => prepErr = "ValueError"))
  /\ (prepPc = "start" => prepCalls = <<>> /\ part = 1 /\ grid_params = NoGrid)

C9_RetryPolicy == [] C9_Policy /\ <> PrepEnded

C9_Witness ==
  /\ prepPc = "failed"
  /\ retries = max_retries
  /\ prepErr = "RuntimeError"
  /\ prepToolsOk
  /\ Len(prepCalls) > NumPartitions

\* C10: with a required toolchain path missing the preparation fails on its
\* first attempt, spawns no external process and schedules no retry.
C10_ConfigErrorNotRetried ==
  ~prepToolsOk =>
    /\ retries = 0
    /\ prepPc \in {"start", "failed"}
    /\ prepCalls = <<>>

\* Non-zero exit and timeout of an external process.
ToolErrors == {"failed", "timeout"}
ToolErrorIn(calls) == \E i \in 1..Len(calls) : calls[i].out \in ToolErrors
AttemptFailing == prepPc \in {"retry", "failed"}

\* C11: an attempt in which any external process (receptor conversion,
\* grid-map job preparation, grid computation, ligand conversion, docking
\* engine) exited non-zero or timed out fails with the tool error, and the
\* job is retried while fewer than max_retries retries were made.
C11_ToolErrorsRetried ==
  ToolErrorIn(prepCalls) =>
    /\ prepErr = "RuntimeError"
    /\ \/ prepPc = "retry" /\ retries < max_retries
       \/ prepPc = "failed" /\ retries = max_retries

\* The external processes of a complete attempt with a ligand, in the order
\* of the statements of prepare_macromolecule: step 1, the loop of step 3,
\* the loop of step 4, step 6, step 7 (step 5 spawns no process).
Pipeline ==
  << [tool |-> "prepare_receptor", i |-> 0] >>
    \o [p \in 1..NumPartitions |-> [tool |-> "prepare_gpf", i |-> p]]
    \o [p \in 1..NumPartitions |-> [tool |-> "autogrid", i |-> p]]
    \o << [tool |-> "prepare_ligand", i |-> 0], [tool |-> "autodock_gpu", i |-> 0] >>
GridCallsEnd == 1 + 2 * NumPartitions

CallsOf(tool) == {i \in 1..Len(prepCalls) : prepCalls[i].tool = tool}
GridTools == {"prepare_gpf", "autogrid"}
PrepAfterGridMaps == prepPc \in {"postprocess", "ligand", "docking", "dbupdate", "succeeded"}

\* C14: in an attempt the k-th grid computation is the one of partition k
\* and there are at most eleven of them, the first one after the eleven
\* grid-map jobs were prepared; when the grid-map job preparation or the grid
\* computation of a partition fails, it is the last process of the attempt:
\* the attempt is over with a tool error, no further partition is computed,
\* the field descriptor is not post-processed and the task returns no
\* result; post-processing and a returned result have all eleven
\* computations behind them, each of them successful.
C14_GridPartitions ==
  /\ NumPartitions = 11
  /\ \A tool \in GridTools :
       /\ Cardinality(CallsOf(tool)) <= NumPartitions
       /\ \A i \in CallsOf(tool) :
            prepCalls[i].i = Cardinality({j \in CallsOf(tool) : j <= i})
  /\ (CallsOf("autogrid") # {} =>
        /\ Cardinality(CallsOf("prepare_gpf")) = NumPartitions
        /\ \A i \in CallsOf("prepare_gpf") : \A j \in CallsOf("autogrid") :
             i < j /\ prepCalls[i].out = "ok")
  /\ \A i \in CallsOf("prepare_gpf") \cup CallsOf("autogrid") :
       prepCalls[i].out # "ok" =>
         /\ i = Len(prepCalls)
         /\ AttemptFailing
         /\ prepErr = "RuntimeError"
         /\ ~PrepAfterGridMaps
         /\ prepResult = Null
  /\ (PrepAfterGridMaps =>
        /\ Cardinality(CallsOf("autogrid")) = NumPartitions
        /\ \A i \in CallsOf("autogrid") : prepCalls[i].out = "ok")
  /\ (~IsNull(prepResult) =>
        /\ prepPc = "succeeded"
        /\ prepResult.gpf_count = 11
        /\ Cardinality(CallsOf("autogrid")) = 11)

C14_Witness ==
  /\ AttemptFailing
  /\ Cardinality(CallsOf("autogrid")) = 5
  /\ prepCalls[Len(prepCalls)] = PrepCall("autogrid", 5, "timeout")
  /\ fld = "none"

\* A string whose number of tokens is not 3; the strings Python takes as
\* true among them are the ones from_strings hands to a parser.
IsString(text) == ~text.null
WrongTokenCount(text) == IsString(text) /\ Len(text.tokens) # 3
ParsedWrongTokenCount(text) == Truthy(text) /\ Len(text.tokens) # 3
OnlyReceptorConverted ==
  \A i \in 1..Len(prepCalls) : i = 1 /\ prepCalls[i].tool = "prepare_receptor"

\* C15 as claimed: with a grid-size or grid-center string of other than 3
\* tokens the attempt spawns no external process and does not get past grid
\* resolution.
C15_NoToolOnBadTokenCount ==
  WrongTokenCount(gridsize) \/ WrongTokenCount(gridcenter) =>
    /\ prepCalls = <<>>
    /\ ~PrepPastGrid

\* C15 amended: with a non-empty grid-size or grid-center string of other
\* than 3 tokens grid resolution raises the invalid-specification error
\* (ValueError); an attempt never gets past resolution, the only process it
\* spawns is the receptor conversion that precedes resolution, and when it
\* reaches resolution the job fails there without a retry.
C15_BadTokenCountFails ==
  ParsedWrongTokenCount(gridsize) \/ ParsedWrongTokenCount(gridcenter) =>
    /\ from_strings(gridsize, gridcenter).error = "ValueError"
    /\ ResolveGrid(gridsize, gridcenter, ligandFile).error = "ValueError"
    /\ ~PrepPastGrid
    /\ grid_params = NoGrid
    /\ OnlyReceptorConverted
    /\ (prepErr = "ValueError" =>
          prepPc = "failed" /\ prepCalls = << PrepCall("prepare_receptor", 0, "ok") >>)
    /\ (prepPc = "failed" /\ prepCalls = << PrepCall("prepare_receptor", 0, "ok") >> =>
          prepErr = "ValueError")
    /\ IsNull(prepResult)

C15_Witness ==
  /\ prepPc = "failed"
  /\ prepErr = "ValueError"
  /\ retries = 0
  /\ ParsedWrongTokenCount(gridcenter)
  /\ ~ParsedWrongTokenCount(gridsize) /\ Truthy(gridsize)
  /\ Len(gridcenter.tokens) = 2
  /\ Len(prepCalls) = 1

GridJobStarted == PrepPastGrid \/ CallsOf("prepare_gpf") # {} \/ CallsOf("autogrid") # {}
CentroidAvailable == ligandFile = "coords"

\* C16: when a grid-map job was generated the attempt holds both parameters:
\* the size is the triple parsed from the supplied size text, the center is
\* the triple parsed from the supplied center text or, with no center text,
\* the centroid of the ligand file; with no size text, or with no center text
\* and no centroid, no grid-map tool ever runs and an attempt that reaches
\* resolution ends the job with the input error, without retry.
C16_GridResolvedFirst ==
  /\ (GridJobStarted =>
        /\ grid_params.present
        /\ Truthy(gridsize)
        /\ parse_triplet_int(gridsize).error = None
        /\ grid_params.size = parse_triplet_int(gridsize).value
        /\ IF Truthy(gridcenter)
           THEN /\ parse_triplet_float(gridcenter).error = None
                /\ grid_params.center = parse_triplet_float(gridcenter).value
           ELSE /\ CentroidAvailable
                /\ grid_params.center = LigandCentroid)
  /\ (~Truthy(gridsize) \/ (~Truthy(gridcenter) /\ ~CentroidAvailable) =>
        /\ ~GridJobStarted
        /\ grid_params = NoGrid
        /\ OnlyReceptorConverted
        /\ (prepErr = "ValueError" => prepPc = "failed")
        /\ (prepCalls = << PrepCall("prepare_receptor", 0, "ok") >> =>
              prepPc = "grid" \/ (prepPc = "failed" /\ prepErr = "ValueError")))

C16_Witness ==
  /\ CallsOf("prepare_gpf") # {}
  /\ ~Truthy(gridcenter)
  /\ CentroidAvailable
  /\ grid_params.present
  /\ grid_params.center = LigandCentroid
  /\ grid_params.size = << 60, 60, 60 >>

LigandConversionFailed ==
  \E i \in CallsOf("prepare_ligand") : prepCalls[i].out # "ok"

\* C17: when the ligand conversion of an attempt failed, the attempt is not
\* failed by it and nothing is scheduled again: the preparation goes on to
\* its successful end with the final field descriptor and without a docking
\* run.
C17_LigandFailureStageOnly ==
  LigandConversionFailed =>
    /\ prepErr = None
    /\ ~AttemptFailing
    /\ prepPc \in {"docking", "dbupdate", "succeeded"}
    /\ fld = "final"
    /\ CallsOf("autodock_gpu") = {}

LigandSupplied == ligandFile # "none"

\* C18: an attempt invokes the docking engine at most once, and only after a
\* successful conversion of a supplied ligand; with no ligand supplied no
\* ligand or docking process is spawned, nothing fails once the field
\* descriptor is final, the task returns ok with the field descriptor and
\* docking_ran false and without RMSD and energy, and the linked record keeps
\* the RMSD and energy it had.
C18_DockingOnlyWithLigand ==
  /\ Cardinality(CallsOf("autodock_gpu")) <= 1
  /\ \A j \in CallsOf("autodock_gpu") :
       /\ LigandSupplied
       /\ ligand_pdbqt
       /\ \E i \in CallsOf("prepare_ligand") : i < j /\ prepCalls[i].out = "ok"
  /\ (~LigandSupplied =>
        /\ CallsOf("prepare_ligand") = {} /\ CallsOf("autodock_gpu") = {}
        /\ ~ligand_pdbqt
        /\ docking_result = DefaultDockingResult
        /\ (fld = "final" => prepPc \in {"ligand", "docking", "dbupdate", "succeeded"})
        /\ (prepPc = "succeeded" =>
              /\ prepResult.ok
              /\ prepResult.fld = FldPath
              /\ prepResult.docking_ran = FALSE
              /\ prepResult.best_reference_rmsd = <<>>
              /\ prepResult.best_binding_energy = <<>>)
        /\ mac.rmsd_redocking = NoMac.rmsd_redocking
        /\ mac.energia_original = NoMac.energia_original)

C18_Witness ==
  /\ prepPc = "succeeded"
  /\ ~LigandSupplied
  /\ macromolecule_id = "found"
  /\ gridsize = Text(<<"60", "60", "60">>)
  /\ Len(prepCalls) = GridCallsEnd
  /\ prepResult.docking_ran = FALSE

\* C19: a preparation that completes with a linked record identity performs
\* the write-back, whether or not a ligand was supplied or docking ran; a
\* write-back that went through stored the final field-descriptor path, and
\* RMSD and energy when a best pose was parsed.
C19_WriteBackOnCompletion ==
  prepPc = "succeeded" /\ macromolecule_id # "none" =>
    /\ WritesBack(macromolecule_id, docking_result)
    /\ (prepResult.db_updated =>
          /\ mac.pathFilefld = FldPath
          /\ (docking_result.best_rmsd # <<>> =>
                /\ mac.rmsd_redocking = FormatFixed(docking_result.best_rmsd[1], 3)
                /\ mac.energia_original = FormatFixed(docking_result.best_energy[1], 2)))

(***************************************************************************)
(* Properties of concurrent write-backs.                                   *)
(***************************************************************************)
InTransaction == {w \in Writers : wpc[w] \in {"save", "commit"}}
Committed == {w \in Writers : wret[w] = "True"}
OrdersOf(S) ==
  {s \in [1..Cardinality(S) -> S] : \A i, j \in 1..Cardinality(S) : s[i] = s[j] => i = j}

\* The row after complete write-backs of the writers of order, one after
\* the other.
RECURSIVE ApplyWriteBacks(_, _)
ApplyWriteBacks(row, order) ==
  IF order = <<>> THEN row
  ELSE ApplyWriteBacks(UpdatedMac(row, wres[Head(order)], FldOf(Head(order))), Tail(order))

\* A row has all the fields the write-back that stored its path sets.
AllOrNone(row) ==
  \A w \in Writers :
    row.pathFilefld = FldOf(w) =>
      /\ (wres[w].best_rmsd # <<>> =>
            row.rmsd_redocking = FormatFixed(wres[w].best_rmsd[1], 3))
      /\ (wres[w].best_energy # <<>> =>
            row.energia_original = FormatFixed(wres[w].best_energy[1], 2))

\* C20: at most one write-back is between its locking read and the end of
\* its transaction, and it holds the row lock; it read the row as the last
\* commit left it and nothing was committed since; the committed row is the
\* outcome of the committed write-backs applied whole, one after the other,
\* and so is every row a reader saw; neither ever shows the path of one
\* write-back without the RMSD and energy that write-back sets.
C20_WriteBackAtomic ==
  /\ Cardinality(InTransaction) <= 1
  /\ \A w \in InTransaction : rowLock = w
  /\ (InTransaction = {} => rowLock = 0)
  /\ \A w \in Writers :
       /\ (wpc[w] = "save" => wobj[w] = mac)
       /\ (wpc[w] = "commit" => wobj[w] = UpdatedMac(mac, wres[w], FldOf(w)))
  /\ \E s \in OrdersOf(Committed) : mac = ApplyWriteBacks(NoMac, s)
  /\ \E T \in SUBSET Committed : \E s \in OrdersOf(T) : observed = ApplyWriteBacks(NoMac, s)
  /\ AllOrNone(mac)
  /\ AllOrNone(observed)

C20_Witness ==
  /\ Committed = Writers
  /\ \A w \in Writers : wres[w].best_rmsd # <<>>
  /\ mac.pathFilefld = FldOf(1)
  /\ mac.rmsd_redocking = FormatFixed(13, 3)
  /\ observed.pathFilefld = FldOf(2)
  /\ observed.rmsd_redocking = FormatFixed(23, 3)

(***************************************************************************)
(* Persistence errors, result extraction, artifacts.                       *)
(***************************************************************************)
\* C21: a failing write-back leaves the preparation with its success result
\* and without a retry; a failing final update leaves the batch run ended
\* with the outcome it computed: the task returns that outcome and does not
\* end with an exception.
C21_PersistenceErrorTolerated ==
  /\ (prepPc = "succeeded" /\ WritesBack(macromolecule_id, docking_result)
        /\ ~prepResult.db_updated =>
          /\ prepResult.ok
          /\ prepResult.docking_ran
          /\ prepErr = None)
  /\ (ReachedPersistence /\ RunEnded =>
        /\ pc = "done"
        /\ ~IsNull(ret)
        /\ ret.ok = final.results_payload.ok
        /\ ret.statistics = final.results_payload.statistics)

\* A run element that both float() calls and the int() call accept.
WellFormedRun(el) == el.reference_rmsd.ok /\ el.binding_energy.ok /\ el.run.ok
WellFormedReport(doc) ==
  /\ doc.kind = "runs"
  /\ doc.runs # <<>>
  /\ \A i \in 1..Len(doc.runs) : WellFormedRun(doc.runs[i])

\* The (rmsd, energy) pairs of the runs of minimum reference_rmsd among the
\* runs at the given positions.
MinRmsdPairs(runs, among) ==
  {<< runs[i].reference_rmsd.v, runs[i].binding_energy.v >> :
     i \in {k \in among :
              \A j \in among : runs[k].reference_rmsd.v <= runs[j].reference_rmsd.v}}

\* C22: for a report whose runs are all well-formed, each extractor returns
\* the reference RMSD of a run of minimum RMSD together with the binding
\* energy of that same run; on the runs (2.1,-5.0), (1.3,-6.2), (4.0,-9.9)
\* both return (1.3, -6.2).
C22_BestIsMinRmsdRun ==
  WellFormedReport(report) =>
    LET pairs == MinRmsdPairs(report.runs, 1..Len(report.runs))
    IN /\ ~IsNull(xBatch) =>
            /\ xBatch.raised = None
            /\ xBatch.value # <<>>
            /\ << xBatch.value[1].best_rmsd, xBatch.value[1].best_energy >> \in pairs
       /\ ~IsNull(xPrep) => xPrep.value \in pairs
       /\ report.runs = GoodReport =>
            /\ ~IsNull(xBatch) =>
                  xBatch.value[1].best_rmsd = 13 /\ xBatch.value[1].best_energy = -62
            /\ ~IsNull(xPrep) => xPrep.value = << 13, -62 >>

C22_Witness ==
  /\ report = Document("runs", GoodReport)
  /\ ~IsNull(xBatch) /\ ~IsNull(xPrep)
  /\ xPrep.value = << 13, -62 >>
  /\ xBatch.value[1].best_energy = -62

\* A run element the preparation extractor can read: it does not look at the
\* run number.
ParsableRun(el) == el.reference_rmsd.ok /\ el.binding_energy.ok
ParsableRuns(runs) == {i \in 1..Len(runs) : ParsableRun(runs[i])}
WellFormedRuns(runs) == {i \in 1..Len(runs) : WellFormedRun(runs[i])}

\* C23: each extractor skips a malformed run and returns the best pose of
\* the remaining runs; for a report that is absent, unparsable or without a
\* parsable run it returns "nothing" and raises no error.
C23_MalformedSkippedNothingOnFailure ==
  /\ ~IsNull(xBatch) =>
        /\ xBatch.raised = None
        /\ IF report.kind = "runs" /\ WellFormedRuns(report.runs) # {}
           THEN /\ xBatch.value # <<>>
                /\ << xBatch.value[1].best_rmsd, xBatch.value[1].best_energy >>
                      \in MinRmsdPairs(report.runs, WellFormedRuns(report.runs))
           ELSE xBatch.value = <<>>
  /\ ~IsNull(xPrep) =>
        /\ xPrep.raised = None
        /\ IF report.kind = "runs" /\ ParsableRuns(report.runs) # {}
           THEN xPrep.value \in MinRmsdPairs(report.runs, ParsableRuns(report.runs))
           ELSE xPrep.value = <<>>

(* The artifacts of a preparation across attempts. *)
CountLines(f, kind) == Cardinality({i \in DOMAIN f : f[i].kind = kind})

\* The directory a single successful run leaves behind.
SingleRunState ==
  [receptor |-> ReceptorPdbqt,
   gpfTop |-> NumPartitions,
   gpf |-> << Line("parameter_file", 0, None) >> \o FreshGpf,
   fld |-> RawFld(IF rawLen < fld_cutoff_line THEN rawLen ELSE fld_cutoff_line)
             \o << Line("template", 1, receptor_name), Line("template", 2, receptor_name) >>]

\* An attempt went through the pipeline and each of its tools wrote its file.
PipelineRan == aPc = "done" /\ aWrote

Concurrent(i, j) ==
  /\ i # j
  /\ jobs[i].state = "running"
  /\ jobs[j].state = "running"

\* C26: two distinct jobs that run at the same time have different working
\* directories.
C26_NoSharedWorkingDirectory ==
  \A i, j \in DOMAIN jobs : Concurrent(i, j) => jobs[i].dir # jobs[j].dir

(* Reproducibility of the ledger. *)
\* C25: two runs of the batch task on the same rows, the same ligand files
\* and the same directories end with the same ledger, and with it the same
\* field descriptor for every receptor.
C25_LedgersReproducible ==
  tPc[1] = "done" /\ tPc[2] = "done" => tLedger[1] = tLedger[2]

(* The tabular artifact. *)
\* The ledger entry a data line was written from: its non-empty cells.
EntryOf(line) ==
  [c \in {k \in line.cols : ~line.cells[k].blank} |-> line.cells[c].v]

CsvWritten == ~IsNull(files.csv)

\* C27: the CSV file a batch run wrote starts with a header row, followed
\* by exactly one row per ledger entry, in the order of the ledger; for an
\* empty ledger the file is the header row alone.
C27_CsvHeaderAndRows ==
  /\ CsvWritten =>
        /\ Len(files.csv.lines) = 1 + Len(csv_rows)
        /\ files.csv.lines[1].kind = "header"
        /\ \A i \in 1..Len(csv_rows) :
             /\ files.csv.lines[i + 1].kind = "row"
             /\ DOMAIN csv_rows[i] \subseteq files.csv.lines[1].cols
             /\ EntryOf(files.csv.lines[i + 1]) = csv_rows[i]
  /\ Len(write_rows_csv(<<>>)) = 1
  /\ write_rows_csv(<<>>)[1].kind = "header"

C27_Witness ==
  /\ CsvWritten
  /\ Len(files.csv.lines) >= 3
  /\ \E i, j \in 2..Len(files.csv.lines) :
       /\ IsErrorRow(EntryOf(files.csv.lines[i]))
       /\ IsSuccessRow(EntryOf(files.csv.lines[j]))

(* The job record during the loop. *)
\* From the first receptor to the last artifact: after the RUNNING save and
\* before the final update.
InLoopOrArtifacts == pc \in {"rec", "pairs", "json", "csv", "zip"}

\* C29: no step of a batch run taken while receptors and pairs are being
\* processed, or while the artifacts are written, changes the job record:
\* status, result payload and archive path stay as the RUNNING save left them.
C29_RecordUnchangedInLoop ==
  [][InLoopOrArtifacts => proc' = proc /\ statusWrites' = statusWrites]_vars

C29_Witness ==
  /\ pc = "pairs"
  /\ ri > 1
  /\ counters.successful_combinations >= 1
  /\ counters.failed_combinations >= 1
  /\ counters.skipped_receptors >= 1
  /\ proc.status = PROCESSANDO
  /\ IsNull(proc.resultado_final)
  /\ statusWrites = << PROCESSANDO >>

(* The tool invokers. *)
TimedOut == procEnd.elapsed > cmdTimeout
ExitedNonZero == ~TimedOut /\ procEnd.returncode # 0
StderrAlone == ~TimedOut /\ procEnd.returncode = 0 /\ procEnd.stderr = "warning"

\* C28: a call of either invoker starts exactly one external process, also
\* when that process fails; the call fails exactly when the process exits
\* with a non-zero code or runs beyond the timeout, and text on stderr with
\* exit code zero does not make it fail.
C28_InvokerOutcome ==
  /\ spawned <= 1
  /\ iPc = "returned" =>
        /\ spawned = 1
        /\ (iResult.raised # None) <=> (ExitedNonZero \/ TimedOut)
        /\ StderrAlone => iResult.raised = None

C28_Witness ==
  /\ iPc = "returned"
  /\ invoker = "ProcessExecutor.run"
  /\ StderrAlone
  /\ iResult.raised = None
  /\ spawned = 1

(* The centroid of a structure file. *)
WellFormedRecord(l) ==
  /\ l.tag \in {"ATOM", "HETATM"}
  /\ l.long
  /\ l.x.ok /\ l.y.ok /\ l.z.ok
WellFormedRecords(s) == {i \in DOMAIN s.lines : WellFormedRecord(s.lines[i])}

RECURSIVE SumOver(_, _, _)
SumOver(lines, idx, axis) ==
  IF idx = {} THEN 0
  ELSE LET i == CHOOSE k \in idx : TRUE
       IN lines[i][axis].v + SumOver(lines, idx \ {i}, axis)

\* C30: the centroid computation raises nothing; for a file without a
\* well-formed coordinate record its value is "no result"; otherwise its
\* value is the mean of all well-formed records, the malformed lines
\* between them being skipped.
C30_CentroidOfWellFormedRecords ==
  ~IsNull(centroid) =>
    /\ centroid.raised = None
    /\ LET ok == WellFormedRecords(structure)
       IN IF ok = {} THEN centroid.value = <<>>
          ELSE /\ centroid.value # <<>>
               /\ centroid.value[1].n = Cardinality(ok)
               /\ centroid.value[1].sums =
                     << SumOver(structure.lines, ok, "x"), SumOver(structure.lines, ok, "y"),
                        SumOver(structure.lines, ok, "z") >>

\* A malformed line before a well-formed record.
C30_Witness ==
  /\ ~IsNull(centroid)
  /\ Len(structure.lines) = 2
  /\ structure.lines[1].tag = "ATOM" /\ structure.lines[1].long /\ ~structure.lines[1].y.ok
  /\ WellFormedRecord(structure.lines[2])
  /\ centroid.value # <<>>
  /\ centroid.value[1].n = 1

(***************************************************************************)
(* C31: a grid-size text and a grid-center text written from three numbers *)
(* each, separated by commas and/or whitespace, parse to GridParams whose  *)
(* size and center are exactly those numbers, in order.                    *)
(***************************************************************************)
C31_GridTextsRoundTrip ==
  ~IsNull(gParams) =>
    /\ gParams.error = None
    /\ gParams.params = GridParams(gValues.size, gValues.center)

\* Texts with a comma separator and three different numbers were parsed.
C31_Witness ==
  /\ ~IsNull(gParams)
  /\ gSep.sep = << ",", " " >>
  /\ gValues.size = << 60, 7, 0 >>
  /\ gValues.center = << 105, 0 - 15, 0 >>
  /\ gParams.error = None
  /\ gParams.params.size = << 60, 7, 0 >>

(***************************************************************************)
(* C32: post-processing leaves the field descriptor equal to the first     *)
(* min(n, cutoff) lines of the file it found, n its line count, followed   *)
(* by the trailer with every placeholder replaced by the receptor's name;  *)
(* no line after the cutoff survives.                                      *)
(***************************************************************************)
C32_TruncatedThenTrailer ==
  [][(aPc = "postprocess" /\ aPc' = "done") =>
       LET n == Len(wdir.fld)
           k == IF n < fld_cutoff_line THEN n ELSE fld_cutoff_line
           out == wdir'.fld
       IN /\ Len(out) = k + Len(textfld)
          /\ \A i \in 1..k : out[i] = wdir.fld[i]
          /\ \A i \in 1..Len(textfld) :
               out[k + i] = IF textfld[i].name = "kakakakaka"
                            THEN [textfld[i] EXCEPT !.name = receptor_name]
                            ELSE textfld[i]
          /\ \A i \in 1..Len(out) :
               /\ out[i].name # "kakakakaka"
               /\ ~(out[i].kind = "fld" /\ out[i].n > fld_cutoff_line)]_vars

\* A descriptor longer than the cutoff was post-processed.
C32_Witness ==
  /\ aPc = "done"
  /\ aWrote
  /\ rawLen > fld_cutoff_line
  /\ Len(wdir.fld) = fld_cutoff_line + Len(textfld)
  /\ wdir.fld[fld_cutoff_line] = Line("fld", fld_cutoff_line, None)

(***************************************************************************)
(* C33: terminal statuses are absorbing: once the status of a batch job is *)
(* CONCLUIDO or ERROR it never changes again, also when the queue delivers *)
(* the same process id again and the task is started again for it.         *)
(***************************************************************************)
C33_TerminalAbsorbing ==
  [][proc.status \in Terminal => proc'.status = proc.status]_vars

(***************************************************************************)
(* C34: the stored status and the stored result agree: CONCLUIDO comes     *)
(* with a result that has ok = true and at least one successful pair,      *)
(* ERROR with a result that has ok = false, a job that is CONCLUIDO or     *)
(* ERROR always has a result, and a job in PROCESSANDO does not carry the  *)
(* result of the run that is under way.                                    *)
(***************************************************************************)
C34_StatusAndResultAgree ==
  /\ (proc.status = CONCLUIDO =>
        /\ ~IsNull(proc.resultado_final)
        /\ proc.resultado_final.ok
        /\ proc.resultado_final.statistics.successful_combinations >= 1
        /\ Count(csv_rows, IsSuccessRow) >= 1)
  /\ (proc.status = ERROR =>
        /\ ~IsNull(proc.resultado_final)
        /\ ~proc.resultado_final.ok)
  /\ (proc.status = PROCESSANDO => IsNull(proc.resultado_final))

\* A run with a successful and a failed pair ended and stored its result.
C34_Witness ==
  /\ pc = "done"
  /\ proc.status = CONCLUIDO
  /\ proc.resultado_final.ok
  /\ proc.resultado_final.statistics.successful_combinations >= 1
  /\ proc.resultado_final.statistics.failed_combinations >= 1

(***************************************************************************)
(* C35: after any write-backs to one row, the stored RMSD, energy and      *)
(* field-descriptor path come from the same run, the latest that wrote:    *)
(* the row never shows the RMSD or the energy of another run next to the   *)
(* path a run stored.                                                      *)
(***************************************************************************)
C35_ValuesFromLatestWriter ==
  \A w \in Writers :
    mac.pathFilefld = FldOf(w) =>
      \A v \in Writers \ {w} :
        /\ (wres[v].best_rmsd # <<>> =>
              mac.rmsd_redocking # FormatFixed(wres[v].best_rmsd[1], 3))
        /\ (wres[v].best_energy # <<>> =>
              mac.energia_original # FormatFixed(wres[v].best_energy[1], 2))

(***************************************************************************)
(* C36: in every docking outcome of receptor preparation best_rmsd and     *)
(* best_energy are both absent or both present; they are present only when *)
(* the engine ran (success) and left a report that was parsed; an engine   *)
(* that ran without a parsable report gives success with both absent; a    *)
(* failed or skipped docking gives success = false with both absent.       *)
(***************************************************************************)
EngineCalls == {i \in 1..Len(prepCalls) : prepCalls[i].tool = "autodock_gpu"}
DockingStepDone == prepPc \in {"dbupdate", "succeeded"}

C36_DockingResultConsistent ==
  /\ (docking_result.best_rmsd = <<>>) <=> (docking_result.best_energy = <<>>)
  /\ (docking_result.best_rmsd # <<>> =>
        /\ docking_result.success
        /\ \E i \in EngineCalls : prepCalls[i].out = "xml")
  /\ (DockingStepDone =>
        /\ (EngineCalls = {} \/ \E i \in EngineCalls : prepCalls[i].out \in {"failed", "timeout"}) =>
             /\ ~docking_result.success
             /\ docking_result.best_rmsd = <<>>
             /\ docking_result.best_energy = <<>>
        /\ (\E i \in EngineCalls : prepCalls[i].out \in {"noxml", "xml"}) =>
             docking_result.success
        /\ (\E i \in EngineCalls : prepCalls[i].out = "noxml") =>
             docking_result.best_rmsd = <<>>)

\* The engine ran and no pose was parsed from its report.
C36_Witness ==
  /\ DockingStepDone
  /\ \E i \in EngineCalls : prepCalls[i].out = "xml"
  /\ docking_result.success
  /\ docking_result.best_rmsd = <<>>
  /\ docking_result.best_energy = <<>>

(***************************************************************************)
(* C37: on a report whose runs all have a numeric reference_rmsd,          *)
(* binding_energy and run index the extractor of receptor preparation and  *)
(* the extractor of batch processing return the same (RMSD, energy) pair,  *)
(* and when several runs share the minimum RMSD both return the first of   *)
(* them in document order.                                                 *)
(***************************************************************************)
FirstMinRmsdRun(runs) ==
  CHOOSE i \in 1..Len(runs) :
    /\ \A j \in 1..Len(runs) : runs[i].reference_rmsd.v <= runs[j].reference_rmsd.v
    /\ \A j \in 1..(i - 1) : runs[j].reference_rmsd.v > runs[i].reference_rmsd.v

C37_ExtractorsAgree ==
  WellFormedReport(report) /\ ~IsNull(xBatch) /\ ~IsNull(xPrep) =>
    LET first == report.runs[FirstMinRmsdRun(report.runs)]
    IN /\ xBatch.raised = None
       /\ xPrep.raised = None
       /\ xBatch.value # <<>>
       /\ xPrep.value = << xBatch.value[1].best_rmsd, xBatch.value[1].best_energy >>
       /\ xPrep.value = << first.reference_rmsd.v, first.binding_energy.v >>
       /\ xBatch.value[1].best_run = first.run.v

\* Two runs share the minimum RMSD and differ in energy and run index; both
\* extractors returned the first.
C37_Witness ==
  /\ report.kind = "runs"
  /\ Len(report.runs) = 2
  /\ WellFormedReport(report)
  /\ report.runs[1].reference_rmsd.v = report.runs[2].reference_rmsd.v
  /\ report.runs[1].binding_energy.v # report.runs[2].binding_energy.v
  /\ report.runs[1].run.v # report.runs[2].run.v
  /\ ~IsNull(xBatch) /\ ~IsNull(xPrep)
  /\ xPrep.value = << report.runs[1].reference_rmsd.v, report.runs[1].binding_energy.v >>
  /\ xBatch.value[1].best_run = report.runs[1].run.v

(***************************************************************************)
(* C38: a batch run started for a process id that has no row changes       *)
(* nothing: no row is created or modified, no directory or file is         *)
(* created, no tool is invoked, and the run returns the not-found error.   *)
(***************************************************************************)
C38_MissingJobChangesNothing ==
  ~jobExists =>
    /\ pc \in {"queued", "done"}
    /\ proc = [status |-> EM_FILA, resultado_final |-> Null, pathFileZIP |-> None]
    /\ statusWrites = <<>>
    /\ toolLog = <<>>
    /\ files = NoFiles
    /\ ligands = <<>> /\ macs = <<>>
    /\ macs_results = <<>> /\ csv_rows = <<>>
    /\ final = NoFinal
    /\ (pc = "queued" => IsNull(ret))
    /\ (pc = "done" => ret = [ok |-> FALSE, error |-> "process_not_found"])

\* The run for a missing row has returned.
C38_Witness ==
  /\ ~jobExists
  /\ pc = "done"
  /\ ret = [ok |-> FALSE, error |-> "process_not_found"]
  /\ statusWrites = <<>>

====
